---- MODULE Spec2Model ----
(***************************************************************************)
(* Model of the LigDockAnalyzer interaction engine (analysisService.ts,    *)
(* geometryUtils.ts, constants.ts).                                        *)
(*                                                                         *)
(* Numbers.  Coordinates are integers in ticks of 0.05 Angstrom, so every  *)
(* cutoff of the source is an integer number of ticks (3.5 A = 70,         *)
(* 1.65 A = 33).  A point is a record with fields x, y, z and optionally   *)
(* w: the point stands at (x/w, y/w, z/w), w = 1 when absent.  A centroid  *)
(* of k atoms is the coordinate sums with w = k.  A distance is kept as    *)
(* the reduced fraction n/d of its square, so two distances are equal      *)
(* exactly when their records are equal, and comparisons with a cutoff     *)
(* are exact.  An angle in [0, 180] degrees is kept as the reduced        *)
(* fraction n/d of its squared cosine and the sign of the cosine (pos).    *)
(***************************************************************************)
EXTENDS Integers, Sequences, FiniteSets, Bags, TLC

VARIABLES
    structure,       \* the parsed structure: the atoms in eachAtom order
    ligandResidue,   \* the ligand selector passed to analyzeInteractions
    pc,              \* "ready" before the call of analyzeInteractions, "done" after
                     \* it returned; "loaded", "listed", "searched" in SpecResidues
    interactions,    \* the local raw list `interactions` when the call ends
    ligandRings,     \* the local `ligandRings` of the call
    analysisResult,  \* the value the call returned
    history,         \* the calls of analyzeInteractions made so far, oldest first
    ligandCandidates, \* the value getLigandCandidates returned
    queryName,       \* the query passed to findResidueByName
    found,           \* the value findResidueByName returned
    vectors,         \* the vectors v1, v2 passed to angleBetween
    angleReturned,   \* the value angleBetween returned
    file,            \* App: the selected file, or null
    selectedLigand,  \* App: the selected ligand, or null
    interactionFilters, \* App: which interaction types are shown
    loading,         \* Viewer: the bag of the files whose load was started and has
                     \* not completed
    manualSearchQuery, \* App: the text of the search box
    fileInputValue,  \* App: the name held by the file input element, empty when cleared
    stack,           \* findLigandRings: the calls of dfs still to be run, next first
    visitedPaths     \* findLigandRings: the keys of the rings found so far

\* the state of App and Viewer, and the state of the ring search
appVars == <<file, selectedLigand, interactionFilters, loading, manualSearchQuery,
             fileInputValue>>
searchVars == <<stack, visitedPaths>>

vars == <<structure, ligandResidue, pc, interactions, ligandRings, analysisResult,
          history, ligandCandidates, queryName, found, vectors, angleReturned,
          file, selectedLigand, interactionFilters, loading, manualSearchQuery,
          fileInputValue, stack, visitedPaths>>

----------------------------------------------------------------------------
(* Generic helpers on sequences and integers                               *)

\* null
Null == [null |-> TRUE]

\* the value of a result variable before the call that sets it
NotCalled == [called |-> FALSE]

Abs(i) == IF i < 0 THEN -i ELSE i

RECURSIVE Gcd(_, _)
Gcd(a, b) == IF b = 0 THEN a ELSE Gcd(b, a % b)

RECURSIVE SeqSum(_)
SeqSum(s) == IF s = <<>> THEN 0 ELSE Head(s) + SeqSum(Tail(s))

\* the concatenation of the sequences of ss (halving keeps evaluation shallow)
RECURSIVE Flatten(_)
Flatten(ss) ==
    IF Len(ss) = 0 THEN <<>>
    ELSE IF Len(ss) = 1 THEN ss[1]
    ELSE Flatten(SubSeq(ss, 1, Len(ss) \div 2))
         \o Flatten(SubSeq(ss, (Len(ss) \div 2) + 1, Len(ss)))

\* Array.prototype.filter: the elements of s whose flag is set, in order
Filter(s, flags) ==
    Flatten([k \in 1..Len(s) |-> IF flags[k] THEN <<s[k]>> ELSE <<>>])

\* Array.prototype.includes
Includes(s, e) == \E i \in 1..Len(s) : s[i] = e

\* [...path].sort((a, b) => a - b) on distinct integers
RECURSIVE SortAscending(_)
SortAscending(s) ==
    IF s = <<>> THEN <<>>
    ELSE LET m == CHOOSE i \in 1..Len(s) : \A j \in 1..Len(s) : s[i] <= s[j]
         IN  <<s[m]>> \o SortAscending(SubSeq(s, 1, m - 1) \o SubSeq(s, m + 1, Len(s)))

----------------------------------------------------------------------------
(* constants.ts                                                            *)

HBOND_DIST == 70                    \* 3.5 A
HBOND_ANGLE == 120                  \* degrees; never read by the engine
SALT_BRIDGE_DIST == 80              \* 4.0 A
HYDROPHOBIC_DIST == 90              \* 4.5 A
PI_STACKING_DIST == 110             \* 5.5 A
PI_STACKING_ANGLE_PARALLEL == 30    \* degrees
PI_STACKING_ANGLE_TSHAPED == 60     \* degrees
PI_CATION_DIST == 100               \* 5.0 A
HALOGEN_DIST == 70                  \* 3.5 A
METAL_DIST == 56                    \* 2.8 A
COARSE_DIST == 360                  \* 18.0 A, the literal of the coarse filter
BOND_DIST == 33                     \* 1.65 A, the literal of findLigandRings

POS_CHARGE_ATOMS ==
    [r \in {"ARG", "LYS", "HIS"} |->
        CASE r = "ARG" -> <<"NH1", "NH2", "CZ">>
          [] r = "LYS" -> <<"NZ">>
          [] r = "HIS" -> <<"ND1", "NE2">>]

NEG_CHARGE_ATOMS ==
    [r \in {"ASP", "GLU"} |->
        CASE r = "ASP" -> <<"OD1", "OD2">>
          [] r = "GLU" -> <<"OE1", "OE2">>]

AROMATIC_PLANES ==
    [r \in {"PHE", "TYR", "TRP", "HIS"} |->
        CASE r = "PHE" -> <<"CG", "CD1", "CD2", "CE1", "CE2", "CZ">>
          [] r = "TYR" -> <<"CG", "CD1", "CD2", "CE1", "CE2", "CZ">>
          [] r = "TRP" -> <<"CG", "CD1", "CD2", "NE1", "CE2", "CE3", "CZ2", "CZ3", "CH2">>
          [] r = "HIS" -> <<"CG", "ND1", "CD2", "CE1", "NE2">>]

DONORS == {"N", "O", "S"}
ACCEPTORS == {"N", "O", "S"}
HALOGENS == {"CL", "BR", "I"}
METALS == {"ZN", "MG", "FE", "CU", "CA", "NA", "K", "MN", "CO", "NI"}

\* InteractionType
HydrogenBond == "Hydrogen Bond"
Hydrophobic == "Hydrophobic"
SaltBridge == "Salt Bridge"
PiStacking == "Pi-Stacking"
HalogenBond == "Halogen Bond"
MetalCoordination == "Metal Coordination"
Unknown == "Unknown"

\* part_005 lines 29-41
COMMON_LIGANDS ==
    {"LIG", "UNK", "DRG", "INH", "001", "1",
     "NAG", "NDG", "MAN", "BMA", "GAL", "GLC", "FUC", "SIA", "BGC",
     "BGLC", "BGLCC", "AGLC", "AGLCA",
     "GLA", "GUP", "XYL", "RIB", "ARA",
     "PLM", "OLA", "MYR", "STE",
     "ATP", "ADP", "AMP", "GTP", "GDP", "NAD", "NADP", "FAD", "FMN", "HEM", "HEC"}
IGNORED_RESIDUES ==
    {"HOH", "DOD", "TIP", "WAT", "SOL", "NA", "CL", "K", "MG", "ZN", "CA", "MN", "SO4", "PO4"}

\* String.prototype.toUpperCase on the element symbols, residue names and
\* queries a structure or a search can carry
ToUpperCase(s) ==
    CASE s = "Cl" -> "CL"  [] s = "cl" -> "CL"
      [] s = "lig" -> "LIG"  [] s = " lig " -> " LIG "  [] s = "Lig" -> "LIG"
      [] s = "unl " -> "UNL "  [] s = "hoh" -> "HOH"
      [] s = "Br" -> "BR"  [] s = "br" -> "BR"
      [] s = "i" -> "I"
      [] s = "Zn" -> "ZN"  [] s = "zn" -> "ZN"
      [] s = "Mg" -> "MG"  [] s = "Fe" -> "FE"
      [] s = "n" -> "N"    [] s = "o" -> "O"
      [] s = "c" -> "C"    [] s = "s" -> "S"
      [] OTHER -> s

\* String.prototype.trim on the queries a search can carry
Trim(s) ==
    CASE s = " LIG " -> "LIG"
      [] s = " lig " -> "lig"
      [] s = "UNL " -> "UNL"
      [] s = "unl " -> "unl"
      [] OTHER -> s

\* name.includes('NH') on the atom names a structure can carry
NameIncludesNH(name) == name \in {"NH1", "NH2", "NH", "CNH", "ONH"}

----------------------------------------------------------------------------
(* geometryUtils.ts                                                        *)

W(p) == IF "w" \in DOMAIN p THEN p.w ELSE 1

\* the reduced fraction n/d
Frac(n, d) == LET g == Gcd(n, d) IN [n |-> n \div g, d |-> d \div g]

\* distance(a, b): the fraction is the squared distance in ticks^2
distance(a, b) ==
    LET dx == a.x * W(b) - b.x * W(a)
        dy == a.y * W(b) - b.y * W(a)
        dz == a.z * W(b) - b.z * W(a)
    IN  Frac(dx * dx + dy * dy + dz * dz, (W(a) * W(b)) * (W(a) * W(b)))

\* comparisons of a distance with a cutoff c in ticks
DistLt(dist, c) == dist.n < c * c * dist.d
DistLeExclusive(dist, c) == dist.n < c * c * dist.d
DistLe(dist, c) == dist.n <= c * c * dist.d
DistGt(dist, c) == dist.n > c * c * dist.d

getCenter(atoms) ==
    IF Len(atoms) = 0 THEN [x |-> 0, y |-> 0, z |-> 0]
    ELSE [x |-> SeqSum([i \in 1..Len(atoms) |-> atoms[i].x]),
          y |-> SeqSum([i \in 1..Len(atoms) |-> atoms[i].y]),
          z |-> SeqSum([i \in 1..Len(atoms) |-> atoms[i].z]),
          w |-> Len(atoms)]

sub(a, b) == [x |-> a.x - b.x, y |-> a.y - b.y, z |-> a.z - b.z]

dot(a, b) == a.x * b.x + a.y * b.y + a.z * b.z

cross(a, b) ==
    [x |-> a.y * b.z - a.z * b.y,
     y |-> a.z * b.x - a.x * b.z,
     z |-> a.x * b.y - a.y * b.x]

\* mag(v) squared
magSq(v) == v.x * v.x + v.y * v.y + v.z * v.z

\* normalize(v): the zero vector stays zero; the unit vector v/|v| is kept
\* as the primitive integer vector of the same direction
normalize(v) ==
    IF magSq(v) = 0 THEN [x |-> 0, y |-> 0, z |-> 0]
    ELSE LET g == Gcd(Gcd(Abs(v.x), Abs(v.y)), Abs(v.z))
         IN  [x |-> v.x \div g, y |-> v.y \div g, z |-> v.z \div g]

angleBetweenSigned(v1, v2) ==
    LET dotProd == dot(v1, v2)
        cosSq == Frac(dotProd * dotProd, magSq(v1) * magSq(v2))
    IN  IF magSq(v1) = 0 \/ magSq(v2) = 0 THEN [n |-> 1, d |-> 1, pos |-> TRUE]
        ELSE [n |-> cosSq.n, d |-> cosSq.d, pos |-> dotProd >= 0]

\* angleBetween(v1, v2): the returned angle is acos of
\* |dotProd| / (mag1 * mag2); the early return 0 is the angle of cosine 1
angleBetween(v1, v2) ==
    LET absDot == Abs(dot(v1, v2))
        cosSq == Frac(absDot * absDot, magSq(v1) * magSq(v2))
    IN  IF magSq(v1) = 0 \/ magSq(v2) = 0 THEN [n |-> 1, d |-> 1, pos |-> TRUE]
        ELSE [n |-> cosSq.n, d |-> cosSq.d, pos |-> absDot >= 0]

\* the squared cosine of the thresholds the engine compares angles with,
\* and the sign of the cosine
CosSq(deg) ==
    CASE deg = 30 -> [n |-> 3, d |-> 4, pos |-> TRUE]
      [] deg = 60 -> [n |-> 1, d |-> 4, pos |-> TRUE]
      [] deg = 120 -> [n |-> 1, d |-> 4, pos |-> FALSE]
      [] deg = 150 -> [n |-> 3, d |-> 4, pos |-> FALSE]

\* part_001 lines 57-67: the angle at b of a-b-c, in [0, 180], as the sign
\* and the square of its cosine; 0 degrees when a or c coincides with b
angleDeg(a, b, c) ==
    LET v1 == sub(a, b)
        v2 == sub(c, b)
        dotProd == dot(v1, v2)
    IN  IF magSq(v1) = 0 \/ magSq(v2) = 0 THEN [n |-> 1, d |-> 1, pos |-> TRUE]
        ELSE [n |-> Frac(dotProd * dotProd, magSq(v1) * magSq(v2)).n,
              d |-> Frac(dotProd * dotProd, magSq(v1) * magSq(v2)).d,
              pos |-> dotProd >= 0]

\* the cosine's sign times its square, times the common denominator:
\* larger for smaller angles
SignedCos(a, other) == (IF a.pos THEN 1 ELSE -1) * a.n * other.d

\* angle < deg and angle > deg for an angle in [0, 180]
AngleLt(angle, deg) ==
    LET c == CosSq(deg) IN SignedCos(angle, c) > SignedCos(c, angle)
AngleGt(angle, deg) ==
    LET c == CosSq(deg) IN SignedCos(angle, c) < SignedCos(c, angle)

getPlaneNormal(atoms) ==
    IF Len(atoms) < 3 THEN [x |-> 0, y |-> 0, z |-> 1]
    ELSE LET p1 == atoms[1]
             p2 == atoms[(Len(atoms) \div 2) + 1]
             p3 == atoms[Len(atoms)]
         IN  normalize(cross(sub(p2, p1), sub(p3, p1)))

----------------------------------------------------------------------------
(* analysisService.ts: findLigandRings                                     *)
(* Positions in the atom list are 1-based here, 0-based in the source.     *)

\* lines 24-32: adj[i], the neighbours of atom i; the two loops push them
\* in ascending order
Adjacency(atoms) ==
    Flatten([i \in 1..Len(atoms) |->
        <<Filter([j \in 1..Len(atoms) |-> j],
                 [j \in 1..Len(atoms) |->
                     j # i /\ DistLt(distance(atoms[i], atoms[j]), BOND_DIST)])>>])

\* lines 36-55: the paths with which dfs(start, current, path) reaches
\* line 40, in the order the search reaches them.  The search never reads
\* visitedPaths: line 46 returns whether or not the key was new.
RECURSIVE dfsDeep(_, _, _, _)
dfsDeep(adj, start, current, path) ==
    IF Len(path) > 7 THEN <<>>
    ELSE IF Len(path) >= 5 /\ Includes(adj[current], start) THEN <<path>>
    ELSE Flatten([k \in 1..Len(adj[current]) |->
            IF ~Includes(path, adj[current][k])
            THEN dfsDeep(adj, start, adj[current][k], Append(path, adj[current][k]))
            ELSE <<>>])

RECURSIVE dfs(_, _, _, _)
dfs(adj, start, current, path) ==
    IF Len(path) > 6 THEN <<>>
    ELSE IF Len(path) >= 5 /\ Includes(adj[current], start) THEN <<path>>
    ELSE Flatten([k \in 1..Len(adj[current]) |->
            IF ~Includes(path, adj[current][k])
            THEN dfs(adj, start, adj[current][k], Append(path, adj[current][k]))
            ELSE <<>>])

\* lines 57-62: the searches from every carbon and nitrogen, in order
ClosedPaths(atoms, adj) ==
    Flatten([i \in 1..Len(atoms) |->
        IF atoms[i].element \in {"C", "N"} THEN dfs(adj, i, i, <<i>>) ELSE <<>>])

\* lines 40-41: the key of a path in visitedPaths
PathKey(path) == SortAscending(path)

IsNewRingAlways(closed, k) == TRUE

\* lines 42-45: the k-th closed path is pushed unless visitedPaths has its
\* key, that is unless an earlier closed path had the same key
IsNewRing(closed, k) ==
    \A j \in 1..(k - 1) : PathKey(closed[j]) # PathKey(closed[k])

\* lines 20-64: the rings as paths of positions in `atoms`
RingPaths(atoms) ==
    IF Len(atoms) = 0 THEN <<>>
    ELSE LET closed == ClosedPaths(atoms, Adjacency(atoms))
         IN  Filter(closed, [k \in 1..Len(closed) |-> IsNewRing(closed, k)])

findLigandRings(atoms) ==
    LET paths == RingPaths(atoms)
    IN  Flatten([r \in 1..Len(paths) |->
            <<Flatten([k \in 1..Len(paths[r]) |-> <<atoms[paths[r][k]]>>])>>])

----------------------------------------------------------------------------
(* analysisService.ts: analyzeInteractions                                 *)

NoAngle == [n |-> 0, d |-> 0]   \* the `angle` field left undefined

\* an Interaction; `id` holds the prefix until NumberIds appends the counter
Interaction(prefix, type, dist, lAtom, pAtom, angle) ==
    [id |-> prefix, type |-> type, distance |-> dist,
     ligandAtom |-> lAtom, proteinAtom |-> pAtom, angle |-> angle]

IsLigandByNumber(ap, lig) ==
    ap.resNo = lig.resNo /\ ap.chain = lig.chain

\* lines 125-128
IsLigand(ap, lig) ==
    ap.resNo = lig.resNo /\ ap.chain = lig.chain /\ ap.resName = lig.resName

\* lines 124-139
LigandAtoms(s, lig) == Filter(s, [k \in 1..Len(s) |-> IsLigand(s[k], lig)])
ProteinAtomsNotHetero(s, lig) == Filter(s, [k \in 1..Len(s) |-> ~s[k].isHet])
ProteinAtomsWithHetero(s, lig) == Filter(s, [k \in 1..Len(s) |-> ~IsLigand(s[k], lig)])
ProteinAtoms(s, lig) ==
    Filter(s, [k \in 1..Len(s) |-> ~IsLigand(s[k], lig) /\ ~s[k].isHet])

\* lines 147-150
RelevantProteinAtoms(proteinAtoms, ligandCenter) ==
    Filter(proteinAtoms,
           [k \in 1..Len(proteinAtoms) |->
               DistLt(distance(proteinAtoms[k], ligandCenter), COARSE_DIST)])

\* lines 152-157 and Object.values: the groups in order of first appearance
ResidueKey(a) == <<a.chain, a.resNo>>

RECURSIVE ResidueKeys(_, _)
ResidueKeys(atoms, acc) ==
    IF atoms = <<>> THEN acc
    ELSE ResidueKeys(Tail(atoms),
            IF Includes(acc, ResidueKey(Head(atoms))) THEN acc
            ELSE Append(acc, ResidueKey(Head(atoms))))

ProteinResidues(relevantProteinAtoms) ==
    LET keys == ResidueKeys(relevantProteinAtoms, <<>>)
    IN  Flatten([k \in 1..Len(keys) |->
            <<Filter(relevantProteinAtoms,
                     [j \in 1..Len(relevantProteinAtoms) |->
                         ResidueKey(relevantProteinAtoms[j]) = keys[k]])>>])

\* lines 161-165
LigandRingData(rings) ==
    Flatten([r \in 1..Len(rings) |->
        <<[center |-> getCenter(rings[r]),
           normal |-> getPlaneNormal(rings[r]),
           atoms |-> rings[r]]>>])

\* lines 182-200
PiStackingRecords(ringAtoms, ligandRingData) ==
    LET pCenter == getCenter(ringAtoms)
        pNormal == getPlaneNormal(ringAtoms)
        One(lRing) ==
            LET dist == distance(pCenter, lRing.center)
                angle == angleBetween(pNormal, lRing.normal)
                isParallel == \/ AngleLt(angle, PI_STACKING_ANGLE_PARALLEL)
                              \/ AngleGt(angle, 180 - PI_STACKING_ANGLE_PARALLEL)
                isTShaped == /\ AngleGt(angle, PI_STACKING_ANGLE_TSHAPED)
                             /\ AngleLt(angle, 120)
            IN  IF DistLe(dist, PI_STACKING_DIST) /\ (isParallel \/ isTShaped)
                THEN <<Interaction("pi", PiStacking, dist, lRing.atoms[1], ringAtoms[1], angle)>>
                ELSE <<>>
    IN  Flatten([r \in 1..Len(ligandRingData) |-> One(ligandRingData[r])])

PiCationRecordsToAtom(ringAtoms, ligandAtoms) ==
    LET pCenter == getCenter(ringAtoms)
        One(lAtom) ==
            IF /\ (lAtom.element = "N" \/ NameIncludesNH(lAtom.name))
               /\ DistLt(distance(lAtom, pCenter), PI_CATION_DIST)
            THEN <<Interaction("pic", PiStacking, distance(lAtom, ringAtoms[1]),
                               lAtom, ringAtoms[1], NoAngle)>>
            ELSE <<>>
    IN  Flatten([i \in 1..Len(ligandAtoms) |-> One(ligandAtoms[i])])

\* lines 203-213
PiCationRecords(ringAtoms, ligandAtoms) ==
    LET pCenter == getCenter(ringAtoms)
        One(lAtom) ==
            IF /\ (lAtom.element = "N" \/ NameIncludesNH(lAtom.name))
               /\ DistLt(distance(lAtom, pCenter), PI_CATION_DIST)
            THEN <<Interaction("pic", PiStacking, distance(lAtom, pCenter),
                               lAtom, ringAtoms[1], NoAngle)>>
            ELSE <<>>
    IN  Flatten([i \in 1..Len(ligandAtoms) |-> One(ligandAtoms[i])])

\* lines 174-215
AromaticRecords(resAtoms, ligandAtoms, ligandRingData) ==
    LET resName == resAtoms[1].resName IN
    IF resName \in DOMAIN AROMATIC_PLANES
    THEN LET ringAtoms == Filter(resAtoms,
                              [k \in 1..Len(resAtoms) |->
                                  Includes(AROMATIC_PLANES[resName], resAtoms[k].name)])
         IN  IF Len(ringAtoms) >= 3
             THEN PiStackingRecords(ringAtoms, ligandRingData)
                  \o PiCationRecords(ringAtoms, ligandAtoms)
             ELSE <<>>
    ELSE <<>>

\* lines 228-238
CationPiRecords(posAtoms, ligandRingData) ==
    LET pPosCenter == getCenter(posAtoms)
        One(lRing) ==
            IF DistLt(distance(pPosCenter, lRing.center), PI_CATION_DIST)
            THEN <<Interaction("pic", PiStacking, distance(pPosCenter, lRing.center),
                               lRing.atoms[1], posAtoms[1], NoAngle)>>
            ELSE <<>>
    IN  Flatten([r \in 1..Len(ligandRingData) |-> One(ligandRingData[r])])

PosSaltBridgeRecordsToAtom(posAtoms, ligandAtoms) ==
    LET One(lAtom) ==
            LET d == distance(lAtom, posAtoms[1]) IN
            IF lAtom.element \in {"O", "S", "P"} /\ DistLt(d, SALT_BRIDGE_DIST)
            THEN <<Interaction("sb", SaltBridge, d, lAtom, posAtoms[1], NoAngle)>>
            ELSE <<>>
    IN  Flatten([i \in 1..Len(ligandAtoms) |-> One(ligandAtoms[i])])

\* lines 241-255
PosSaltBridgeRecords(posAtoms, ligandAtoms) ==
    LET pPosCenter == getCenter(posAtoms)
        One(lAtom) ==
            LET d == distance(lAtom, pPosCenter) IN
            IF lAtom.element \in {"O", "S", "P"} /\ DistLt(d, SALT_BRIDGE_DIST)
            THEN <<Interaction("sb", SaltBridge, d, lAtom, posAtoms[1], NoAngle)>>
            ELSE <<>>
    IN  Flatten([i \in 1..Len(ligandAtoms) |-> One(ligandAtoms[i])])

\* lines 218-257
PositiveRecords(resAtoms, ligandAtoms, ligandRingData) ==
    LET resName == resAtoms[1].resName IN
    IF resName \in DOMAIN POS_CHARGE_ATOMS
    THEN LET posAtoms == Filter(resAtoms,
                             [k \in 1..Len(resAtoms) |->
                                 Includes(POS_CHARGE_ATOMS[resName], resAtoms[k].name)])
         IN  IF Len(posAtoms) > 0
             THEN CationPiRecords(posAtoms, ligandRingData)
                  \o PosSaltBridgeRecords(posAtoms, ligandAtoms)
             ELSE <<>>
    ELSE <<>>

\* lines 260-279
NegativeRecords(resAtoms, ligandAtoms) ==
    LET resName == resAtoms[1].resName IN
    IF resName \in DOMAIN NEG_CHARGE_ATOMS
    THEN LET negAtoms == Filter(resAtoms,
                             [k \in 1..Len(resAtoms) |->
                                 Includes(NEG_CHARGE_ATOMS[resName], resAtoms[k].name)])
             pNegCenter == getCenter(negAtoms)
             One(lAtom) ==
                 LET d == distance(lAtom, pNegCenter) IN
                 IF /\ (lAtom.element = "N" \/ NameIncludesNH(lAtom.name))
                    /\ DistLt(d, SALT_BRIDGE_DIST)
                 THEN <<Interaction("sb", SaltBridge, d, lAtom, negAtoms[1], NoAngle)>>
                 ELSE <<>>
         IN  IF Len(negAtoms) > 0
             THEN Flatten([i \in 1..Len(ligandAtoms) |-> One(ligandAtoms[i])])
             ELSE <<>>
    ELSE <<>>

\* lines 170-280: the body of the loop over the nearby protein residues
ResidueRecords(resAtoms, ligandAtoms, ligandRingData) ==
    AromaticRecords(resAtoms, ligandAtoms, ligandRingData)
    \o PositiveRecords(resAtoms, ligandAtoms, ligandRingData)
    \o NegativeRecords(resAtoms, ligandAtoms)

EarlyExitDistMin ==
    IF HBOND_DIST <= HYDROPHOBIC_DIST THEN HBOND_DIST ELSE HYDROPHOBIC_DIST

\* line 286: Math.max(THRESHOLDS.HBOND_DIST, THRESHOLDS.HYDROPHOBIC_DIST)
EarlyExitDist ==
    IF HBOND_DIST >= HYDROPHOBIC_DIST THEN HBOND_DIST ELSE HYDROPHOBIC_DIST

\* lines 285-355: the body of the loop over the atom pairs
AtomPairRecords(lAtom, pAtom) ==
    LET dist == distance(lAtom, pAtom)
        lIsDon == lAtom.element \in DONORS
        lIsAcc == lAtom.element \in ACCEPTORS
        pIsDon == pAtom.element \in DONORS
        pIsAcc == pAtom.element \in ACCEPTORS
        match1 == lIsDon /\ pIsAcc
        match2 == lIsAcc /\ pIsDon
    IN  IF DistGt(dist, EarlyExitDist) THEN <<>>
        ELSE (IF DistLe(dist, HBOND_DIST) /\ (match1 \/ match2)
              THEN <<Interaction("hb", HydrogenBond, dist, lAtom, pAtom, NoAngle)>>
              ELSE <<>>)
          \o (IF /\ ToUpperCase(lAtom.element) \in HALOGENS
                 /\ pAtom.element \in ACCEPTORS
                 /\ DistLe(dist, HALOGEN_DIST)
              THEN <<Interaction("xb", HalogenBond, dist, lAtom, pAtom, NoAngle)>>
              ELSE <<>>)
          \o (IF /\ lAtom.element = "C" /\ pAtom.element = "C"
                 /\ DistLe(dist, HYDROPHOBIC_DIST)
              THEN <<Interaction("hp", Hydrophobic, dist, lAtom, pAtom, NoAngle)>>
              ELSE <<>>)
          \o (IF /\ (ToUpperCase(lAtom.element) \in METALS \/ ToUpperCase(pAtom.element) \in METALS)
                 /\ DistLe(dist, METAL_DIST)
              THEN <<Interaction("mt", MetalCoordination, dist, lAtom, pAtom, NoAngle)>>
              ELSE <<>>)

NumberIdsPerPrefix(records) ==
    [k \in 1..Len(records) |->
        [records[k] EXCEPT !.id =
            <<records[k].id,
              Cardinality({j \in 1..(k - 1) : records[j].id = records[k].id})>>]]

\* `${prefix}-${idCounter++}`: idCounter starts at 0 (line 144) and grows by
\* one with every push, so a record's number is its position in the raw list
NumberIds(records) ==
    [k \in 1..Len(records) |-> [records[k] EXCEPT !.id = <<records[k].id, k - 1>>]]

\* lines 170-357: the raw list `interactions` after both loops
RawInteractions(ligandAtoms, relevantProteinAtoms, ligandRingData) ==
    LET proteinResidues == ProteinResidues(relevantProteinAtoms)
    IN  NumberIds(
            Flatten([r \in 1..Len(proteinResidues) |->
                        ResidueRecords(proteinResidues[r], ligandAtoms, ligandRingData)])
            \o Flatten([i \in 1..Len(ligandAtoms) |->
                  Flatten([j \in 1..Len(relevantProteinAtoms) |->
                        AtomPairRecords(ligandAtoms[i], relevantProteinAtoms[j])])]))

typeScoreAsCommented(t) ==
    CASE t = SaltBridge -> 4
      [] t = HydrogenBond -> 3
      [] t = PiStacking -> 2
      [] OTHER -> 1

\* lines 371-376
typeScore(t) ==
    CASE t = SaltBridge -> 4
      [] t = PiStacking -> 3
      [] t = HydrogenBond -> 2
      [] OTHER -> 1

\* line 365: `${i.ligandAtom.index}-${i.proteinAtom.index}`
PairKey(i) == <<i.ligandAtom.index, i.proteinAtom.index>>

DedupStepKeepAll(pairMap, i) == Append(pairMap, i)

DedupStepKeepLast(pairMap, i) ==
    IF \A k \in 1..Len(pairMap) : PairKey(pairMap[k]) # PairKey(i)
    THEN Append(pairMap, i)
    ELSE LET k == CHOOSE k \in 1..Len(pairMap) : PairKey(pairMap[k]) = PairKey(i)
         IN  IF typeScore(i.type) >= typeScore(pairMap[k].type)
             THEN [pairMap EXCEPT ![k] = i]
             ELSE pairMap

\* lines 365-380: pairMap is kept as the list of its values in insertion order
DedupStep(pairMap, i) ==
    IF \A k \in 1..Len(pairMap) : PairKey(pairMap[k]) # PairKey(i)
    THEN Append(pairMap, i)
    ELSE LET k == CHOOSE k \in 1..Len(pairMap) : PairKey(pairMap[k]) = PairKey(i)
         IN  IF typeScore(i.type) > typeScore(pairMap[k].type)
             THEN [pairMap EXCEPT ![k] = i]
             ELSE pairMap

\* lines 364-383
RECURSIVE Deduplicate(_, _)
Deduplicate(raw, pairMap) ==
    IF raw = <<>> THEN pairMap
    ELSE Deduplicate(Tail(raw), DedupStep(pairMap, Head(raw)))

\* lines 141-383 for a given choice of the protein atoms that are tested:
\* the raw list, the ligand rings and the returned value
Detect(ligandAtoms, testedProteinAtoms) ==
    LET rings == findLigandRings(ligandAtoms)
        raw == RawInteractions(ligandAtoms, testedProteinAtoms, LigandRingData(rings))
    IN  [interactions |-> raw,
         ligandRings |-> rings,
         result |-> [interactions |-> Deduplicate(raw, <<>>),
                     ligandCenter |-> getCenter(ligandAtoms)]]

\* lines 115-384
analyzeInteractions(s, lig) ==
    LET ligandAtoms == LigandAtoms(s, lig)
        proteinAtoms == ProteinAtoms(s, lig)
    IN  IF Len(ligandAtoms) = 0
        THEN [interactions |-> <<>>,
              ligandRings |-> <<>>,
              result |-> [interactions |-> <<>>,
                          ligandCenter |-> [x |-> 0, y |-> 0, z |-> 0]]]
        ELSE Detect(ligandAtoms,
                    RelevantProteinAtoms(proteinAtoms, getCenter(ligandAtoms)))

----------------------------------------------------------------------------
(* The structures the engine is run on                                     *)

\* structure.eachResidue: the residues in order, each a run of consecutive
\* atoms with one chain, residue number and residue name
SameResidue(a, b) ==
    a.chain = b.chain /\ a.resNo = b.resNo /\ a.resName = b.resName

EachResidue(s) ==
    LET starts == Filter([k \in 1..Len(s) |-> k],
                         [k \in 1..Len(s) |-> k = 1 \/ ~SameResidue(s[k], s[k - 1])])
        end(i) == IF i < Len(starts) THEN starts[i + 1] ELSE Len(s) + 1
    IN  [i \in 1..Len(starts) |->
            [resname |-> s[starts[i]].resName,
             resno |-> s[starts[i]].resNo,
             chainname |-> s[starts[i]].chain,
             isHetero |-> s[starts[i]].isHet,
             atomCount |-> end(i) - starts[i]]]

\* lines 79-84 and 104-109
ResidueOption(rp) ==
    [resName |-> rp.resname, resNo |-> rp.resno, chain |-> rp.chainname,
     atomCount |-> rp.atomCount]

IsCandidateNoIgnore(rp) ==
    ToUpperCase(rp.resname) \in COMMON_LIGANDS \/ rp.isHetero

\* lines 70-76
IsCandidate(rp) ==
    LET resNameUpper == ToUpperCase(rp.resname)
        isCommon == resNameUpper \in COMMON_LIGANDS
        isHet == rp.isHetero
        isIgnored == resNameUpper \in IGNORED_RESIDUES
    IN  isCommon \/ (isHet /\ ~isIgnored)

\* line 77
CandidateKey(c) == <<c.chain, c.resNo>>

\* lines 69-87: the values of the map `candidates`, in insertion order
RECURSIVE Candidates(_, _)
Candidates(residues, candidates) ==
    IF residues = <<>> THEN candidates
    ELSE LET rp == Head(residues)
             has == \E k \in 1..Len(candidates) :
                       CandidateKey(candidates[k]) = <<rp.chainname, rp.resno>>
         IN  Candidates(Tail(residues),
                        IF IsCandidate(rp) /\ ~has
                        THEN Append(candidates, ResidueOption(rp))
                        ELSE candidates)

CompareAscending(a, b) ==
    LET aIsCommon == ToUpperCase(a.resName) \in COMMON_LIGANDS
        bIsCommon == ToUpperCase(b.resName) \in COMMON_LIGANDS
    IN  IF aIsCommon /\ ~bIsCommon THEN -1
        ELSE IF ~aIsCommon /\ bIsCommon THEN 1
        ELSE a.atomCount - b.atomCount

\* lines 89-95: the comparator of the sort
Compare(a, b) ==
    LET aIsCommon == ToUpperCase(a.resName) \in COMMON_LIGANDS
        bIsCommon == ToUpperCase(b.resName) \in COMMON_LIGANDS
    IN  IF aIsCommon /\ ~bIsCommon THEN -1
        ELSE IF ~aIsCommon /\ bIsCommon THEN 1
        ELSE b.atomCount - a.atomCount

\* Array.prototype.sort with the comparator: a stable sort
RECURSIVE Sort(_, _)
Sort(list, sorted) ==
    IF list = <<>> THEN sorted
    ELSE LET e == Head(list)
             before == Filter(sorted, [k \in 1..Len(sorted) |-> Compare(sorted[k], e) <= 0])
             after == Filter(sorted, [k \in 1..Len(sorted) |-> Compare(sorted[k], e) > 0])
         IN  Sort(Tail(list), before \o <<e>> \o after)

\* lines 66-96
getLigandCandidates(s) == Sort(Candidates(EachResidue(s), <<>>), <<>>)

RECURSIVE FindLast(_, _, _)
FindLast(residues, q, found0) ==
    IF residues = <<>> THEN found0
    ELSE FindLast(Tail(residues), q,
                  IF ToUpperCase(Head(residues).resname) = q
                  THEN ResidueOption(Head(residues)) ELSE found0)

\* lines 101-111: the callback over the residues
RECURSIVE Find(_, _, _)
Find(residues, q, found0) ==
    IF residues = <<>> THEN found0
    ELSE Find(Tail(residues), q,
              IF found0 # Null THEN found0
              ELSE IF ToUpperCase(Head(residues).resname) = q
                   THEN ResidueOption(Head(residues)) ELSE found0)

\* lines 98-113
findResidueByName(s, queryName0) ==
    Find(EachResidue(s), Trim(ToUpperCase(queryName0)), Null)

MaxShift == 7        \* the protein group is placed at 2.5 A + k * 0.5 A, k in 0..MaxShift
MaxRingAtoms == 6    \* the lattice ligands of SpecRings have at most this many atoms
MaxCycle == 8        \* the polygon ligands of SpecRings have 3..MaxCycle atoms
MaxCalls == 3        \* SpecCalls makes at most this many calls of analyzeInteractions
MaxResidues == 3     \* the structures of SpecResidues have at most this many residues
MaxCoord == 1        \* the vectors of SpecAngle have coordinates in -MaxCoord..MaxCoord
MaxSearchAtoms == 9  \* the lattice ligands of SpecSearch are the first 0..MaxSearchAtoms atoms

\* parseNGLAtom: the fields of AtomData; `index` is set by Indexed
Atom(name, element, x, y, z, resName, resNo, chain, isHet) ==
    [index |-> 0, name |-> name, element |-> element, x |-> x, y |-> y, z |-> z,
     resName |-> resName, resNo |-> resNo, chain |-> chain, isHet |-> isHet]

\* NGL numbers the atoms of a structure 0, 1, 2, ... in eachAtom order
Indexed(atoms) == [i \in 1..Len(atoms) |-> [atoms[i] EXCEPT !.index = i - 1]]

LigAtom(name, element, x, y, z) == Atom(name, element, x, y, z, "LIG", 1, "L", TRUE)

\* regular polygons of side 1.4 A in the plane z = 0, in ring order
Polygon(n) ==
    CASE n = 3 -> <<<<16, 0>>, <<-8, 14>>, <<-8, -14>>>>
      [] n = 4 -> <<<<14, 14>>, <<-14, 14>>, <<-14, -14>>, <<14, -14>>>>
      [] n = 5 -> <<<<24, 0>>, <<7, 23>>, <<-19, 14>>, <<-19, -14>>, <<7, -23>>>>
      [] n = 6 -> <<<<28, 0>>, <<14, 24>>, <<-14, 24>>, <<-28, 0>>, <<-14, -24>>, <<14, -24>>>>
      [] n = 7 -> <<<<32, 0>>, <<20, 25>>, <<-7, 31>>, <<-29, 14>>, <<-29, -14>>,
                    <<-7, -31>>, <<20, -25>>>>
      [] n = 8 -> <<<<37, 0>>, <<26, 26>>, <<0, 37>>, <<-26, 26>>, <<-37, 0>>,
                    <<-26, -26>>, <<0, -37>>, <<26, -26>>>>
      [] n = 9 -> <<<<41, 0>>, <<31, 26>>, <<7, 40>>, <<-20, 35>>, <<-38, 14>>,
                    <<-38, -14>>, <<-20, -35>>, <<7, -40>>, <<31, -26>>>>

ElementPatterns == {"allC", "firstN", "lastC", "noCN"}

PatternElement(pattern, k, n) ==
    CASE pattern = "allC" -> "C"
      [] pattern = "firstN" -> (IF k = 1 THEN "N" ELSE "C")
      [] pattern = "lastC" -> (IF k = n THEN "C" ELSE "O")
      [] pattern = "noCN" -> "O"

PolygonLigand(n, pattern) ==
    [k \in 1..n |-> LigAtom("A", PatternElement(pattern, k, n),
                            Polygon(n)[k][1], Polygon(n)[k][2], 0)]

\* a patch of the triangular lattice of spacing 1.4 A: a centre, the six
\* atoms around it, and three atoms closing a second hexagon around atom 2
LatticePool ==
    <<LigAtom("A", "C", 0, 0, 0),     LigAtom("A", "N", 28, 0, 0),
      LigAtom("A", "C", 14, 24, 0),   LigAtom("A", "O", -14, 24, 0),
      LigAtom("A", "C", -28, 0, 0),   LigAtom("A", "C", -14, -24, 0),
      LigAtom("A", "C", 14, -24, 0),  LigAtom("A", "C", 42, 24, 0),
      LigAtom("A", "O", 42, -24, 0),  LigAtom("A", "C", 56, 0, 0)>>

LatticeLigand(S) ==
    Filter(LatticePool, [k \in 1..Len(LatticePool) |-> k \in S])

\* a hexagon of side 1.4 A in the plane x + y = 0, in ring order: the
\* corners are (s, -s, t)
DiagonalHexagon ==
    <<<<20, 0>>, <<10, 24>>, <<-10, 24>>, <<-20, 0>>, <<-10, -24>>, <<10, -24>>>>

\* the ligands of Spec
LigandNames ==
    {"O", "N", "C", "CL", "ZN", "S", "PO", "BENZENE", "PYRROLE", "LONG_O", "LONG_CL",
     "O_LOWER", "CL_MIXED"}

Ligand(name) ==
    CASE name = "O" -> <<LigAtom("O1", "O", 0, 0, 0)>>
      [] name = "N" -> <<LigAtom("N1", "N", 0, 0, 0)>>
      [] name = "C" -> <<LigAtom("C1", "C", 0, 0, 0)>>
      [] name = "CL" -> <<LigAtom("CL1", "CL", 0, 0, 0)>>
      [] name = "ZN" -> <<LigAtom("ZN", "ZN", 0, 0, 0)>>
      [] name = "S" -> <<LigAtom("S1", "S", 0, 0, 0)>>
      [] name = "O_LOWER" -> <<LigAtom("O1", "o", 0, 0, 0)>>
      [] name = "CL_MIXED" -> <<LigAtom("CL1", "Cl", 0, 0, 0)>>
      [] name = "PO" -> <<LigAtom("P", "P", 0, 0, -30), LigAtom("O1P", "O", 0, 0, 0)>>
      [] name = "BENZENE" -> PolygonLigand(6, "allC")
      [] name = "BENZENE_DIAGONAL" ->
            [k \in 1..6 |-> LigAtom("A", "C", DiagonalHexagon[k][1], -DiagonalHexagon[k][1],
                                    DiagonalHexagon[k][2])]
      [] name = "PYRROLE" -> PolygonLigand(5, "firstN")
      [] name = "LONG_O" -> <<LigAtom("O1", "O", 0, 0, 0), LigAtom("C9", "C", 0, 0, -700)>>
      [] name = "LONG_CL" -> <<LigAtom("CL1", "CL", 0, 0, 0), LigAtom("C9", "C", 0, 0, -700)>>

\* the protein groups of Spec, placed at height dz above the ligand's origin
ProteinNames ==
    {"NONE", "N", "O", "C", "S", "LYS", "ARG_CZ_FIRST", "ARG_NH1_FIRST", "ARG_NH2_FIRST",
     "ASP", "PHE_PARALLEL", "PHE_T", "PHE_TILTED", "HOH", "NH_TOWARD", "NH_AWAY", "TWO",
     "CL", "N_HOH", "PHE_LINE"}

ArgAtom(name, dz) ==
    CASE name = "CZ" -> Atom("CZ", "C", 0, 22, dz + 14, "ARG", 10, "A", FALSE)
      [] name = "NH1" -> Atom("NH1", "N", 0, 0, dz, "ARG", 10, "A", FALSE)
      [] name = "NH2" -> Atom("NH2", "N", 0, 44, dz, "ARG", 10, "A", FALSE)

\* the six ring atoms of a Phe in file order, at the six corners h of a hexagon
PheRing(h) ==
    <<Atom("CG", "C", h[1][1], h[1][2], h[1][3], "PHE", 10, "A", FALSE),
      Atom("CD1", "C", h[2][1], h[2][2], h[2][3], "PHE", 10, "A", FALSE),
      Atom("CD2", "C", h[6][1], h[6][2], h[6][3], "PHE", 10, "A", FALSE),
      Atom("CE1", "C", h[3][1], h[3][2], h[3][3], "PHE", 10, "A", FALSE),
      Atom("CE2", "C", h[5][1], h[5][2], h[5][3], "PHE", 10, "A", FALSE),
      Atom("CZ", "C", h[4][1], h[4][2], h[4][3], "PHE", 10, "A", FALSE)>>

Protein(name, dz) ==
    CASE name = "NONE" -> <<>>
      [] name = "N" -> <<Atom("N", "N", 0, 0, dz, "ALA", 10, "A", FALSE)>>
      [] name = "O" -> <<Atom("O", "O", 0, 0, dz, "ALA", 10, "A", FALSE)>>
      [] name = "C" -> <<Atom("CB", "C", 0, 0, dz, "ALA", 10, "A", FALSE)>>
      [] name = "S" -> <<Atom("SG", "S", 0, 0, dz, "CYS", 10, "A", FALSE)>>
      [] name = "LYS" -> <<Atom("NZ", "N", 0, 0, dz, "LYS", 10, "A", FALSE)>>
      [] name = "ARG_CZ_FIRST" -> <<ArgAtom("CZ", dz), ArgAtom("NH1", dz), ArgAtom("NH2", dz)>>
      [] name = "ARG_NH1_FIRST" -> <<ArgAtom("NH1", dz), ArgAtom("NH2", dz), ArgAtom("CZ", dz)>>
      [] name = "ARG_NH2_FIRST" -> <<ArgAtom("NH2", dz), ArgAtom("CZ", dz), ArgAtom("NH1", dz)>>
      [] name = "ASP" -> <<Atom("OD1", "O", 0, 0, dz, "ASP", 10, "A", FALSE),
                           Atom("OD2", "O", 0, 44, dz, "ASP", 10, "A", FALSE)>>
      [] name = "PHE_PARALLEL" ->
            PheRing([k \in 1..6 |-> <<Polygon(6)[k][1], Polygon(6)[k][2], dz>>])
      [] name = "PHE_T" ->
            PheRing([k \in 1..6 |-> <<Polygon(6)[k][1], 0, dz + 40 + Polygon(6)[k][2]>>])
      [] name = "PHE_TILTED" ->
            PheRing(<<<<28, 0, dz>>, <<14, 17, dz - 17>>, <<-14, 17, dz - 17>>,
                      <<-28, 0, dz>>, <<-14, -17, dz + 17>>, <<14, -17, dz + 17>>>>)
      [] name = "HOH" -> <<Atom("O", "O", 0, 0, dz, "HOH", 10, "A", TRUE)>>
      [] name = "NH_TOWARD" -> <<Atom("N", "N", 0, 0, dz, "ALA", 10, "A", FALSE),
                                 Atom("H", "H", 0, 0, dz - 20, "ALA", 10, "A", FALSE)>>
      [] name = "NH_AWAY" -> <<Atom("N", "N", 0, 0, dz, "ALA", 10, "A", FALSE),
                               Atom("H", "H", 0, 0, dz + 20, "ALA", 10, "A", FALSE)>>
      [] name = "TWO" -> <<Atom("N", "N", 0, 0, dz, "ALA", 10, "A", FALSE),
                           Atom("CA", "C", 0, 30, dz, "GLY", 11, "A", FALSE)>>
      [] name = "CL" -> <<Atom("CL", "CL", 0, 0, dz, "UNL", 10, "A", FALSE)>>
      [] name = "PHE_LINE" -> <<Atom("CG", "C", -28, 0, dz, "PHE", 10, "A", FALSE),
                                Atom("CD1", "C", 0, 0, dz, "PHE", 10, "A", FALSE),
                                Atom("CD2", "C", 28, 0, dz, "PHE", 10, "A", FALSE)>>
      [] name = "N_HOH" -> <<Atom("N", "N", 0, 0, dz, "ALA", 10, "A", FALSE),
                             Atom("O", "O", 0, 60, 0, "HOH", 20, "A", TRUE)>>

Shifts == {50 + 10 * k : k \in 0..MaxShift}

\* the planes of the protein rings of SpecStacking: two vectors u, v of the
\* plane, whose normal is u x v
TiltNames == {"N001", "N110", "N121", "N100", "N011", "N111", "N230"}

Tilt(name) ==
    CASE name = "N001" -> <<<<28, 0, 0>>, <<0, 28, 0>>>>
      [] name = "N110" -> <<<<14, -14, 0>>, <<0, 0, 28>>>>
      [] name = "N121" -> <<<<14, 0, -14>>, <<0, 14, -28>>>>
      [] name = "N100" -> <<<<0, 28, 0>>, <<0, 0, 28>>>>
      [] name = "N011" -> <<<<28, 0, 0>>, <<0, 14, -14>>>>
      [] name = "N111" -> <<<<14, -14, 0>>, <<0, 14, -14>>>>
      [] name = "N230" -> <<<<21, -14, 0>>, <<0, 0, 28>>>>

\* three ring atoms of a Phe around the point (0, 0, dz), in the plane `name`
TiltedPhe(name, dz) ==
    LET u == Tilt(name)[1]
        v == Tilt(name)[2]
    IN  <<Atom("CG", "C", u[1], u[2], dz + u[3], "PHE", 10, "A", FALSE),
          Atom("CD1", "C", v[1], v[2], dz + v[3], "PHE", 10, "A", FALSE),
          Atom("CD2", "C", -u[1] - v[1], -u[2] - v[2], dz - u[3] - v[3], "PHE", 10, "A", FALSE)>>

StackingLigandNames == {"BENZENE", "BENZENE_DIAGONAL"}

LigandSelector(atomCount) ==
    [resName |-> "LIG", resNo |-> 1, chain |-> "L", atomCount |-> atomCount]

\* the selectors of SpecSelectors: the ligand's own, ones that differ from it
\* in one field, and one that names a protein residue
SelectorNames == {"LIG", "OTHER_NUMBER", "OTHER_CHAIN", "OTHER_CASE", "PROTEIN_RESIDUE"}

Selector(name, atomCount) ==
    CASE name = "LIG" -> LigandSelector(atomCount)
      [] name = "OTHER_NUMBER" -> [LigandSelector(atomCount) EXCEPT !.resNo = 2]
      [] name = "OTHER_CHAIN" -> [LigandSelector(atomCount) EXCEPT !.chain = "A"]
      [] name = "OTHER_CASE" -> [LigandSelector(atomCount) EXCEPT !.resName = "lig"]
      [] name = "PROTEIN_RESIDUE" ->
            [resName |-> "ALA", resNo |-> 10, chain |-> "A", atomCount |-> 1]

\* the ligands without rings
SmallLigandNames == {"O", "N", "C", "CL", "S", "PO"}


----------------------------------------------------------------------------
(* The state machine                                                       *)

\* part_004 lines 31-39: the filters App starts with
InitialFilters ==
    [t \in {HydrogenBond, SaltBridge, Hydrophobic, PiStacking, HalogenBond,
            MetalCoordination, Unknown} |->
        t \in {HydrogenBond, SaltBridge}]

\* part_004 lines 22-39: App as it is mounted, no load under way
AppIdle ==
    /\ file = Null
    /\ selectedLigand = Null
    /\ interactionFilters = InitialFilters
    /\ loading = EmptyBag
    /\ manualSearchQuery = ""
    /\ fileInputValue = <<>>

\* no ring search is under way
SearchIdle ==
    /\ stack = <<>>
    /\ visitedPaths = {}

\* nothing was asked of the other services
OthersIdle ==
    /\ ligandCandidates = <<>>
    /\ queryName = Null
    /\ found = NotCalled
    /\ vectors = Null
    /\ angleReturned = NotCalled
    /\ AppIdle
    /\ SearchIdle

Ready ==
    /\ pc = "ready"
    /\ interactions = <<>>
    /\ ligandRings = <<>>
    /\ analysisResult = Null
    /\ history = <<>>
    /\ OthersIdle

\* a ligand beside one protein group, the ligand's atoms before or after it
Init ==
    /\ \E l \in LigandNames, p \in ProteinNames, dz \in Shifts, ligandFirst \in BOOLEAN :
          /\ structure = Indexed(IF ligandFirst THEN Ligand(l) \o Protein(p, dz)
                                 ELSE Protein(p, dz) \o Ligand(l))
          /\ ligandResidue = LigandSelector(Len(Ligand(l)))
    /\ Ready

\* a ligand alone: a part of the lattice patch, or a polygon
InitRings ==
    /\ \/ \E S \in SUBSET (1..Len(LatticePool)) :
             /\ Cardinality(S) <= MaxRingAtoms
             /\ structure = Indexed(LatticeLigand(S))
       \/ \E n \in 3..MaxCycle, pattern \in ElementPatterns :
             structure = Indexed(PolygonLigand(n, pattern))
    /\ ligandResidue = LigandSelector(Len(structure))
    /\ Ready

\* a ligand ring in one of two planes beside a protein ring in one of seven
InitStacking ==
    /\ \E l \in StackingLigandNames, t \in TiltNames, dz \in Shifts, ligandFirst \in BOOLEAN :
          /\ structure = Indexed(IF ligandFirst THEN Ligand(l) \o TiltedPhe(t, dz)
                                 ELSE TiltedPhe(t, dz) \o Ligand(l))
          /\ ligandResidue = LigandSelector(Len(Ligand(l)))
    /\ Ready

\* a small ligand beside one protein group, and a selector that may or may
\* not name the ligand
InitSelectors ==
    /\ \E l \in SmallLigandNames, p \in ProteinNames, dz \in Shifts, sel \in SelectorNames :
          /\ structure = Indexed(Ligand(l) \o Protein(p, dz))
          /\ ligandResidue = Selector(sel, Len(Ligand(l)))
    /\ Ready

\* the engine was not called
EngineIdle ==
    /\ ligandResidue = Null
    /\ interactions = <<>>
    /\ ligandRings = <<>>
    /\ analysisResult = Null
    /\ history = <<>>

Vectors ==
    [x : -MaxCoord..MaxCoord, y : -MaxCoord..MaxCoord, z : -MaxCoord..MaxCoord]

\* two vectors, the zero vector among them
InitAngle ==
    /\ vectors \in [v1 : Vectors, v2 : Vectors]
    /\ angleReturned = NotCalled
    /\ ligandCandidates = <<>> /\ queryName = Null /\ found = NotCalled
    /\ structure = <<>>
    /\ pc = "idle"
    /\ EngineIdle
    /\ AppIdle
    /\ SearchIdle

\* one call angleBetween(v1, v2)
AngleBetween ==
    /\ vectors # Null
    /\ angleReturned = NotCalled
    /\ angleReturned' = angleBetween(vectors.v1, vectors.v2)
    /\ UNCHANGED <<structure, ligandResidue, pc, interactions, ligandRings, analysisResult,
                   history, ligandCandidates, queryName, found, vectors,
                   appVars, searchVars>>

NextAngle == AngleBetween

SpecAngle == InitAngle /\ [][NextAngle]_vars

\* the structures and the selectors of SpecCalls
CallLigandNames == {"O", "C"}
CallProteinNames == {"N", "C", "LYS", "TWO"}
CallSelectorNames == {"LIG", "PROTEIN_RESIDUE"}

InitCalls ==
    /\ \E l \in CallLigandNames, p \in CallProteinNames, dz \in Shifts,
          sel \in CallSelectorNames :
          /\ structure = Indexed(Ligand(l) \o Protein(p, dz))
          /\ ligandResidue = Selector(sel, Len(Ligand(l)))
    /\ Ready

\* the ids of a list moved up by offset
ShiftIds(list, offset) ==
    [k \in 1..Len(list) |-> [list[k] EXCEPT !.id = <<@[1], @[2] + offset>>]]

AnalyzeInteractionsSharedCounter ==
    /\ pc = "ready"
    /\ \E r \in {analyzeInteractions(structure, ligandResidue)} :
          LET made == SeqSum([k \in 1..Len(history) |->
                                 Len(history[k].result.interactions)])
              result == [r.result EXCEPT !.interactions = ShiftIds(@, made)]
          IN  /\ interactions' = ShiftIds(r.interactions, made)
              /\ ligandRings' = r.ligandRings
              /\ analysisResult' = result
              /\ history' = Append(history, [structure |-> structure,
                                             ligandResidue |-> ligandResidue,
                                             result |-> result])
    /\ pc' = "done"
    /\ UNCHANGED <<structure, ligandResidue, ligandCandidates, queryName, found, vectors,
                   angleReturned,
                   appVars, searchVars>>

\* the residues of SpecResidues: name, number, chain, hetero flag, atoms
ResiduePool ==
    {<<"LIG", 1, "A", TRUE, 2>>,
     <<"UNL", 1, "A", TRUE, 3>>,
     <<"HOH", 1, "A", TRUE, 1>>,
     <<"ATP", 2, "A", FALSE, 1>>,
     <<"UNL", 3, "A", TRUE, 3>>,
     <<"ALA", 2, "A", FALSE, 2>>,
     <<"lig", 4, "B", TRUE, 3>>,
     <<"ZN", 5, "A", TRUE, 1>>}

ResidueAtoms(r) ==
    [k \in 1..r[5] |-> Atom("C", "C", 0, 0, 14 * k, r[1], r[2], r[3], r[4])]

\* the lists of different residues of the pool, at most MaxResidues long
RECURSIVE ResidueLists(_)
ResidueLists(n) ==
    IF n = 0 THEN {<<>>}
    ELSE ResidueLists(n - 1) \cup
         {Append(l, r) : l \in {m \in ResidueLists(n - 1) : Len(m) = n - 1},
                         r \in ResiduePool}

Distinct(l) == \A i, j \in 1..Len(l) : l[i] = l[j] => i = j

Queries == {"LIG", " lig ", "unl ", "HOH", "XYZ"}

InitResidues ==
    /\ \E l \in {m \in ResidueLists(MaxResidues) : Distinct(m)} :
          structure = Indexed(Flatten([k \in 1..Len(l) |-> ResidueAtoms(l[k])]))
    /\ queryName \in Queries
    /\ ligandCandidates = <<>>
    /\ found = NotCalled
    /\ vectors = Null /\ angleReturned = NotCalled
    /\ pc = "loaded"
    /\ EngineIdle
    /\ AppIdle
    /\ SearchIdle

\* one call getLigandCandidates(structure), made when the structure is loaded
GetLigandCandidates ==
    /\ pc = "loaded"
    /\ ligandCandidates' = getLigandCandidates(structure)
    /\ pc' = "listed"
    /\ UNCHANGED <<structure, ligandResidue, interactions, ligandRings, analysisResult,
                   history, queryName, found, vectors, angleReturned,
                   appVars, searchVars>>

\* one call findResidueByName(structure, queryName), made by a manual search
FindResidueByName ==
    /\ pc = "listed"
    /\ found' = findResidueByName(structure, queryName)
    /\ pc' = "searched"
    /\ UNCHANGED <<structure, ligandResidue, interactions, ligandRings, analysisResult,
                   history, ligandCandidates, queryName, vectors, angleReturned,
                   appVars, searchVars>>

NextResidues == GetLigandCandidates \/ FindResidueByName

SpecResidues == InitResidues /\ [][NextResidues]_vars

\* one call analyzeInteractions(structure, ligandResidue)
AnalyzeInteractions ==
    /\ pc = "ready"
    /\ \E r \in {analyzeInteractions(structure, ligandResidue)} :
          /\ interactions' = r.interactions
          /\ ligandRings' = r.ligandRings
          /\ analysisResult' = r.result
          /\ history' = Append(history, [structure |-> structure,
                                         ligandResidue |-> ligandResidue,
                                         result |-> r.result])
    /\ pc' = "done"
    /\ UNCHANGED <<structure, ligandResidue, ligandCandidates, queryName, found, vectors,
                   angleReturned,
                   appVars, searchVars>>

\* another residue is selected (or the same one again), which makes the
\* effect of App run the analysis again
SelectLigand(sel) ==
    /\ pc = "done"
    /\ Len(history) < MaxCalls
    /\ ligandResidue' = sel
    /\ pc' = "ready"
    /\ UNCHANGED <<structure, interactions, ligandRings, analysisResult, history,
                   ligandCandidates, queryName, found, vectors, angleReturned,
                   appVars, searchVars>>

----------------------------------------------------------------------------
(* analyzeInteractions run call by call of dfs                             *)

\* line 37: the guard that ends a call of dfs at once
PathNeverTooLong(path) == FALSE
PathTooLong(path) == Len(path) > 6

\* the structures of SpecSearch: no atom at all, no ligand atom, one ligand
\* atom, two ligand atoms out of bonding distance, rings beside a protein
\* ring, a cycle of eight, and the first atoms of the lattice patch, whose
\* centre is bonded to six atoms
SearchCaseNames ==
    {"NO_LIGAND", "SINGLE", "DISCONNECTED", "BENZENE_PHE", "PYRROLE_PHE", "OCTAGON"}

SearchCase(name) ==
    CASE name = "NO_LIGAND" -> Protein("N", 60)
      [] name = "SINGLE" -> Ligand("N") \o Protein("ASP", 60)
      [] name = "DISCONNECTED" -> Ligand("LONG_O") \o Protein("N", 60)
      [] name = "BENZENE_PHE" -> Ligand("BENZENE") \o Protein("PHE_PARALLEL", 70)
      [] name = "PYRROLE_PHE" -> Protein("PHE_T", 60) \o Ligand("PYRROLE")
      [] name = "OCTAGON" -> PolygonLigand(8, "allC")

InitSearch ==
    /\ \/ \E n \in 0..MaxSearchAtoms : structure = Indexed(LatticeLigand(1..n))
       \/ \E name \in SearchCaseNames : structure = Indexed(SearchCase(name))
    /\ ligandResidue =
          LigandSelector(Cardinality({k \in 1..Len(structure) : structure[k].resName = "LIG"}))
    /\ Ready

\* lines 57-62: the calls dfs(i, i, [i]) the loop makes, in order
RootCalls(atoms) ==
    Flatten([i \in 1..Len(atoms) |->
        IF atoms[i].element \in {"C", "N"}
        THEN <<[start |-> i, current |-> i, path |-> <<i>>]>> ELSE <<>>])

\* lines 50-54: the calls a call of dfs makes, in order
NestedCalls(adj, call) ==
    Flatten([k \in 1..Len(adj[call.current]) |->
        IF ~Includes(call.path, adj[call.current][k])
        THEN <<[start |-> call.start, current |-> adj[call.current][k],
                path |-> Append(call.path, adj[call.current][k])]>>
        ELSE <<>>])

\* lines 124-160 up to the first call of dfs: the atoms are extracted; with
\* no ligand atom the call returns at line 141
ExtractAtoms ==
    /\ pc = "ready"
    /\ LET ligandAtoms == LigandAtoms(structure, ligandResidue)
           result == [interactions |-> <<>>, ligandCenter |-> [x |-> 0, y |-> 0, z |-> 0]]
       IN  IF Len(ligandAtoms) = 0
           THEN /\ analysisResult' = result
                /\ history' = Append(history, [structure |-> structure,
                                               ligandResidue |-> ligandResidue,
                                               result |-> result])
                /\ pc' = "done"
                /\ UNCHANGED stack
           ELSE /\ stack' = RootCalls(ligandAtoms)
                /\ pc' = "rings"
                /\ UNCHANGED <<analysisResult, history>>
    /\ UNCHANGED <<structure, ligandResidue, interactions, ligandRings, ligandCandidates,
                   queryName, found, vectors, angleReturned, appVars, visitedPaths>>

\* lines 36-55: the next call of dfs runs up to its return or up to the
\* calls it makes itself, which then run before the calls that were waiting
Dfs ==
    /\ pc = "rings"
    /\ stack # <<>>
    /\ \E atoms \in {LigandAtoms(structure, ligandResidue)} :
       \E adj \in {Adjacency(atoms)} :
          LET call == Head(stack)
              key == PathKey(call.path)
          IN  IF PathTooLong(call.path)
              THEN /\ stack' = Tail(stack)
                   /\ UNCHANGED <<visitedPaths, ligandRings>>
              ELSE IF Len(call.path) >= 5 /\ Includes(adj[call.current], call.start)
              THEN /\ stack' = Tail(stack)
                   /\ visitedPaths' = visitedPaths \cup {key}
                   /\ ligandRings' =
                         IF key \in visitedPaths THEN ligandRings
                         ELSE Append(ligandRings,
                                     [k \in 1..Len(call.path) |-> atoms[call.path[k]]])
              ELSE /\ stack' = NestedCalls(adj, call) \o Tail(stack)
                   /\ UNCHANGED <<visitedPaths, ligandRings>>
    /\ UNCHANGED <<structure, ligandResidue, pc, interactions, analysisResult, history,
                   ligandCandidates, queryName, found, vectors, angleReturned, appVars>>

\* lines 161-383: with the rings found, the tests and the deduplication
DetectInteractions ==
    /\ pc = "rings"
    /\ stack = <<>>
    /\ LET ligandAtoms == LigandAtoms(structure, ligandResidue)
           ligandCenter == getCenter(ligandAtoms)
           relevantProteinAtoms ==
               RelevantProteinAtoms(ProteinAtoms(structure, ligandResidue), ligandCenter)
       IN  \E raw \in {RawInteractions(ligandAtoms, relevantProteinAtoms,
                                       LigandRingData(ligandRings))} :
              LET result == [interactions |-> Deduplicate(raw, <<>>),
                             ligandCenter |-> ligandCenter]
              IN  /\ interactions' = raw
                  /\ analysisResult' = result
                  /\ history' = Append(history, [structure |-> structure,
                                                 ligandResidue |-> ligandResidue,
                                                 result |-> result])
    /\ pc' = "done"
    /\ UNCHANGED <<structure, ligandResidue, ligandRings, ligandCandidates, queryName,
                   found, vectors, angleReturned, appVars, searchVars>>

NextSearch == ExtractAtoms \/ Dfs \/ DetectInteractions

SpecSearch == InitSearch /\ [][NextSearch]_vars

----------------------------------------------------------------------------

Next == AnalyzeInteractions

NextCalls ==
    \/ AnalyzeInteractions
    \/ \E sel \in CallSelectorNames : SelectLigand(Selector(sel, ligandResidue.atomCount))

SpecCalls == InitCalls /\ [][NextCalls]_vars

Spec == Init /\ [][Next]_vars

SpecRings == InitRings /\ [][Next]_vars

SpecSelectors == InitSelectors /\ [][Next]_vars

SpecStacking == InitStacking /\ [][Next]_vars

----------------------------------------------------------------------------
(* App and Viewer: the state of App.tsx, the handlers of the user's         *)
(* events and the completions of the loads Viewer3Dmol started.  A file is  *)
(* a record of its name, a sequence of characters, and its content; a       *)
(* structure is the record of the atoms parsed from a file.  The analysis   *)
(* effect of App runs after the render a handler caused and before the      *)
(* next event, so it is part of the step of that handler.                   *)

MaxLoading == 2      \* at most this many loads are in flight at a time

\* part_004 line 58
SUPPORTED_EXTENSIONS ==
    <<<<".", "p", "d", "b">>, <<".", "e", "n", "t">>, <<".", "c", "i", "f">>,
      <<".", "s", "d", "f">>, <<".", "m", "o", "l", "2">>>>

\* String.prototype.toLowerCase on the characters a file name can carry
ToLowerCaseChar(ch) ==
    CASE ch = "B" -> "b"  [] ch = "P" -> "p"  [] ch = "D" -> "d"
      [] OTHER -> ch

toLowerCase(name) == [k \in 1..Len(name) |-> ToLowerCaseChar(name[k])]

\* String.prototype.endsWith
endsWith(str, suffix) ==
    /\ Len(str) >= Len(suffix)
    /\ SubSeq(str, Len(str) - Len(suffix) + 1, Len(str)) = suffix

isValidExtensionCaseSensitive(uploadedFile) ==
    \E k \in 1..Len(SUPPORTED_EXTENSIONS) :
       endsWith(uploadedFile.name, SUPPORTED_EXTENSIONS[k])

\* part_004 lines 63-64
isValidExtension(uploadedFile) ==
    LET fileName == toLowerCase(uploadedFile.name)
    IN  \E k \in 1..Len(SUPPORTED_EXTENSIONS) : endsWith(fileName, SUPPORTED_EXTENSIONS[k])

\* the files the user can choose: five with a supported extension, one of
\* them in upper case, and three without
Files ==
    {[name |-> <<"a", ".", "p", "d", "b">>, content |-> "O_N"],
     [name |-> <<"B", ".", "P", "D", "B">>, content |-> "ZN_N"],
     [name |-> <<"c", ".", "c", "i", "f">>, content |-> "BENZENE_PHE"],
     [name |-> <<"d", ".", "m", "o", "l", "2">>, content |-> "PROTEIN_ONLY"],
     [name |-> <<"e", ".", "s", "d", "f">>, content |-> "CL_O_HOH"],
     [name |-> <<"g", ".", "t", "x", "t">>, content |-> "O_N"],
     [name |-> <<"p", "d", "b">>, content |-> "ZN_N"],
     [name |-> <<"h", ".", "p", "d", "b", "x">>, content |-> "BENZENE_PHE"]}

\* the atoms NGL parses from a content
Content(name) ==
    CASE name = "O_N" -> Ligand("O") \o Protein("N", 60)
      [] name = "ZN_N" -> Ligand("ZN") \o Protein("N", 50)
      [] name = "BENZENE_PHE" -> Ligand("BENZENE") \o Protein("PHE_PARALLEL", 80)
      [] name = "PROTEIN_ONLY" -> Protein("TWO", 60)
      [] name = "CL_O_HOH" -> Ligand("CL") \o Protein("O", 60)
                              \o <<Atom("O", "O", 0, 60, 0, "HOH", 20, "L", TRUE)>>

\* part_002 lines 69-74: the structure NGL parsed from the content of f
Parse(f) == [atoms |-> Indexed(Content(f.content))]

\* the texts the user types into the search box
AppQueries == {"", "lig", "ALA", "HOH", "XYZ"}

\* part_004 lines 22-51: App as it is mounted, the engine not called
InitApp ==
    /\ structure = Null
    /\ pc = "mounted"
    /\ EngineIdle
    /\ OthersIdle

\* part_004 lines 138-143: the analysis effect, run with the structure and
\* the selected ligand the handler left; `kept` is the result it leaves
\* when its condition fails
AnalysisEffect(struct, lig, kept) ==
    IF struct # Null /\ lig # Null
    THEN analyzeInteractions(struct.atoms, lig).result
    ELSE kept

\* part_004 lines 60-80, and part_002 lines 49-53: the effect of Viewer
\* starts the load of the file it is given.  The browser has put the chosen
\* file into the input element before the handler runs.
HandleFileUpload(uploadedFile) ==
    /\ pc = "mounted"
    /\ IF ~isValidExtension(uploadedFile)
       THEN /\ fileInputValue' = <<>>
            /\ UNCHANGED <<file, structure, ligandCandidates, selectedLigand,
                           analysisResult, loading>>
       ELSE /\ BagCardinality(loading) < MaxLoading
            /\ fileInputValue' = uploadedFile.name
            /\ file' = uploadedFile
            /\ structure' = Null
            /\ ligandCandidates' = <<>>
            /\ selectedLigand' = Null
            /\ analysisResult' = Null
            /\ loading' = loading (+) SetToBag({uploadedFile})
    /\ UNCHANGED <<ligandResidue, pc, interactions, ligandRings, history, queryName,
                   found, vectors, angleReturned, interactionFilters,
                   manualSearchQuery, searchVars>>

\* part_004 lines 82-92; the button is rendered when a file is selected
\* (lines 178-185).  The loads in flight are not cancelled.
HandleReset ==
    /\ pc = "mounted"
    /\ file # Null
    /\ file' = Null
    /\ structure' = Null
    /\ ligandCandidates' = <<>>
    /\ selectedLigand' = Null
    /\ analysisResult' = Null
    /\ manualSearchQuery' = ""
    /\ fileInputValue' = <<>>
    /\ UNCHANGED <<ligandResidue, pc, interactions, ligandRings, history, queryName,
                   found, vectors, angleReturned, interactionFilters, loading,
                   searchVars>>

\* part_002 lines 71-77 and part_004 lines 115-122, 138-143: the load of f
\* completes and Viewer hands the structure to handleStructureLoaded
HandleStructureLoaded(f) ==
    /\ pc = "mounted"
    /\ BagIn(f, loading)
    /\ loading' = loading (-) SetToBag({f})
    /\ \E struct \in {Parse(f)} :
       \E candidates \in {getLigandCandidates(struct.atoms)} :
       \E lig \in {IF Len(candidates) > 0 THEN candidates[1] ELSE selectedLigand} :
          /\ structure' = struct
          /\ ligandCandidates' = candidates
          /\ selectedLigand' = lig
          /\ analysisResult' = AnalysisEffect(struct, lig, analysisResult)
    /\ UNCHANGED <<ligandResidue, pc, interactions, ligandRings, history, queryName,
                   found, vectors, angleReturned, file, interactionFilters,
                   manualSearchQuery, fileInputValue, searchVars>>

\* part_002 lines 72-81: the load of f ends without a component, or fails
LoadFailed(f) ==
    /\ pc = "mounted"
    /\ BagIn(f, loading)
    /\ loading' = loading (-) SetToBag({f})
    /\ UNCHANGED <<structure, ligandResidue, pc, interactions, ligandRings,
                   analysisResult, history, ligandCandidates, queryName, found,
                   vectors, angleReturned, file, selectedLigand, interactionFilters,
                   manualSearchQuery, fileInputValue, searchVars>>

\* part_004 line 272
SetManualSearchQuery(query) ==
    /\ pc = "mounted"
    /\ manualSearchQuery' = query
    /\ UNCHANGED <<structure, ligandResidue, pc, interactions, ligandRings,
                   analysisResult, history, ligandCandidates, queryName, found,
                   vectors, angleReturned, file, selectedLigand, interactionFilters,
                   loading, fileInputValue, searchVars>>

AddFoundAlways(prev, foundResidue) == <<foundResidue>> \o prev

\* part_004 lines 128-131
AddFound(prev, foundResidue) ==
    LET exists == \E k \in 1..Len(prev) :
                     prev[k].chain = foundResidue.chain /\ prev[k].resNo = foundResidue.resNo
    IN  IF exists THEN prev ELSE <<foundResidue>> \o prev

\* part_004 lines 124-136, 138-143
HandleManualSearch ==
    /\ pc = "mounted"
    /\ IF structure = Null \/ manualSearchQuery = ""
       THEN UNCHANGED <<ligandCandidates, selectedLigand, analysisResult>>
       ELSE \E foundResidue \in {findResidueByName(structure.atoms, manualSearchQuery)} :
               IF foundResidue # Null
               THEN /\ ligandCandidates' = AddFound(ligandCandidates, foundResidue)
                    /\ selectedLigand' = foundResidue
                    /\ analysisResult' = AnalysisEffect(structure, foundResidue, analysisResult)
               ELSE UNCHANGED <<ligandCandidates, selectedLigand, analysisResult>>
    /\ UNCHANGED <<structure, ligandResidue, pc, interactions, ligandRings, history,
                   queryName, found, vectors, angleReturned, file, interactionFilters,
                   loading, manualSearchQuery, fileInputValue, searchVars>>

\* part_004 lines 249-253, 138-143: the user picks the k-th option of the
\* ligand list; the option's value is its chain and residue number
OnLigandChange(k) ==
    /\ pc = "mounted"
    /\ k \in 1..Len(ligandCandidates)
    /\ LET first == CHOOSE i \in 1..Len(ligandCandidates) :
                       /\ ligandCandidates[i].chain = ligandCandidates[k].chain
                       /\ ligandCandidates[i].resNo = ligandCandidates[k].resNo
                       /\ \A j \in 1..(i - 1) :
                             \/ ligandCandidates[j].chain # ligandCandidates[k].chain
                             \/ ligandCandidates[j].resNo # ligandCandidates[k].resNo
       IN  /\ selectedLigand' = ligandCandidates[first]
           /\ analysisResult' = AnalysisEffect(structure, ligandCandidates[first],
                                               analysisResult)
    /\ UNCHANGED <<structure, ligandResidue, pc, interactions, ligandRings, history,
                   ligandCandidates, queryName, found, vectors, angleReturned, file,
                   interactionFilters, loading, manualSearchQuery, fileInputValue,
                   searchVars>>

NextApp ==
    \/ \E f \in Files : HandleFileUpload(f)
    \/ HandleReset
    \/ \E f \in Files : HandleStructureLoaded(f)
    \/ \E f \in Files : LoadFailed(f)
    \/ \E query \in AppQueries : SetManualSearchQuery(query)
    \/ HandleManualSearch
    \/ \E k \in 1..Len(ligandCandidates) : OnLigandChange(k)

SpecApp == InitApp /\ [][NextApp]_vars

\* part_004 lines 337-343: the types the filter list offers a checkbox for
OfferedFilters == {HydrogenBond, SaltBridge, PiStacking, Hydrophobic, HalogenBond}

\* part_004 lines 146-149
filteredInteractions ==
    IF analysisResult = Null THEN <<>>
    ELSE Filter(analysisResult.interactions,
                [k \in 1..Len(analysisResult.interactions) |->
                    interactionFilters[analysisResult.interactions[k].type]])

\* part_004 lines 151-153, called by the checkbox of type t (line 345)
ToggleFilter(t) ==
    /\ pc = "mounted"
    /\ interactionFilters' = [interactionFilters EXCEPT ![t] = ~@]
    /\ UNCHANGED <<structure, ligandResidue, pc, interactions, ligandRings,
                   analysisResult, history, ligandCandidates, queryName, found,
                   vectors, angleReturned, file, selectedLigand, loading,
                   manualSearchQuery, fileInputValue, searchVars>>

\* App after the file f was uploaded and its load completed
Loaded(f) ==
    /\ file = f
    /\ fileInputValue = f.name
    /\ structure = Parse(f)
    /\ ligandCandidates = getLigandCandidates(Parse(f).atoms)
    /\ selectedLigand = (IF Len(getLigandCandidates(Parse(f).atoms)) > 0
                         THEN getLigandCandidates(Parse(f).atoms)[1] ELSE Null)
    /\ analysisResult =
          (IF Len(getLigandCandidates(Parse(f).atoms)) > 0
           THEN analyzeInteractions(Parse(f).atoms,
                                    getLigandCandidates(Parse(f).atoms)[1]).result
           ELSE Null)
    /\ interactionFilters = InitialFilters
    /\ loading = EmptyBag
    /\ manualSearchQuery = ""

\* a file was uploaded and analysed; from here the user works the filters
InitFilters ==
    /\ \E f \in Files : isValidExtension(f) /\ Loaded(f)
    /\ pc = "mounted"
    /\ ligandResidue = Null
    /\ interactions = <<>> /\ ligandRings = <<>> /\ history = <<>>
    /\ queryName = Null /\ found = NotCalled
    /\ vectors = Null /\ angleReturned = NotCalled
    /\ SearchIdle

NextFilters == \E t \in OfferedFilters : ToggleFilter(t)

\* a user who looks for a type keeps trying every checkbox of the list
SpecFilters ==
    InitFilters /\ [][NextFilters]_vars /\ \A t \in OfferedFilters : WF_vars(ToggleFilter(t))

----------------------------------------------------------------------------
(* Properties                                                              *)

Done == pc = "done"

Elements(s) == {s[k] : k \in 1..Len(s)}

\* the list the call returned, and the atoms it worked on
Out == analysisResult.interactions
Lig == LigandAtoms(structure, ligandResidue)
Prot == ProteinAtoms(structure, ligandResidue)
Relevant == RelevantProteinAtoms(Prot, getCenter(Lig))

\* the records of a list for the atom pair (l, p)
ForPair(records, l, p) ==
    {k \in 1..Len(records) : PairKey(records[k]) = <<l.index, p.index>>}

\* the atoms a residue-level test of the engine groups with atom p
ResidueGroup(p, names) ==
    Filter(Relevant, [k \in 1..Len(Relevant) |->
                         /\ ResidueKey(Relevant[k]) = ResidueKey(p)
                         /\ Includes(names, Relevant[k].name)])

\* C1: the returned list holds at most one interaction per
\* (ligandAtom.index, proteinAtom.index) pair.
C1_OnePerPair ==
    Done => \A a, b \in 1..Len(Out) : PairKey(Out[a]) = PairKey(Out[b]) => a = b

\* C1 witness: two raw records of one atom pair were collapsed into one.
C1_Witness ==
    /\ Done
    /\ \E a, b \in 1..Len(interactions) :
          a # b /\ PairKey(interactions[a]) = PairKey(interactions[b])
    /\ Len(Out) >= 1

\* the rank of a type in the order the claim states
Rank(t) ==
    CASE t = SaltBridge -> 3
      [] t = PiStacking -> 2
      [] t = HydrogenBond -> 1
      [] OTHER -> 0

Reverse(s) == [k \in 1..Len(s) |-> s[Len(s) + 1 - k]]

analyzeUnfiltered(s, lig) ==
    IF Len(LigandAtoms(s, lig)) = 0 THEN analyzeInteractions(s, lig)
    ELSE Detect(LigandAtoms(s, lig), ProteinAtoms(s, lig))

\* C3: the call returns the interactions the same tests return when run over
\* all non-hetero, non-ligand atoms without the 18 A centroid filter.
C3_CoarseFilterLossless ==
    Done => Out = analyzeUnfiltered(structure, ligandResidue).result.interactions

\* C4 as stated: every returned record's distance is the distance between
\* the positions of its ligandAtom and its proteinAtom.
C4_DistanceBetweenReferencedAtoms ==
    Done => \A o \in Elements(Out) : o.distance = distance(o.ligandAtom, o.proteinAtom)

AtomPairTypes == {HydrogenBond, HalogenBond, Hydrophobic, MetalCoordination}

\* the centroids the residue-level tests measure from, for the residue of p
ProteinCentroids(p) ==
    {getCenter(ResidueGroup(p, names)) :
        names \in {t[p.resName] : t \in {tt \in {AROMATIC_PLANES, POS_CHARGE_ATOMS, NEG_CHARGE_ATOMS} :
                                            p.resName \in DOMAIN tt}}}

\* the points the residue-level tests measure to, for the ligand atom l
LigandPoints(l) ==
    {l} \cup {getCenter(ligandRings[r]) : r \in {q \in 1..Len(ligandRings) : ligandRings[q][1] = l}}

\* C4 amended: a HydrogenBond, HalogenBond, Hydrophobic or MetalCoordination
\* record carries the distance between its two atoms; a SaltBridge record
\* carries the distance from its ligand atom to the centroid of the
\* residue's charge-centre atoms; a PiStacking record carries a distance
\* between a centroid of the protein residue (ring or charge centre) and
\* the ligand atom or the centroid of the ligand ring it represents.
C4_DistanceIsTheMeasuredOne ==
    Done =>
      \A o \in Elements(Out) :
         /\ o.type \in AtomPairTypes =>
               o.distance = distance(o.ligandAtom, o.proteinAtom)
         /\ o.type = SaltBridge =>
               \E c \in ProteinCentroids(o.proteinAtom) :
                  o.distance = distance(o.ligandAtom, c)
         /\ o.type = PiStacking =>
               \E c \in ProteinCentroids(o.proteinAtom), q \in LigandPoints(o.ligandAtom) :
                  o.distance = distance(q, c)

\* C4 witness: a returned SaltBridge whose distance is not the distance
\* between its two atoms.
C4_Witness ==
    /\ Done
    /\ \E o \in Elements(Out) :
          /\ o.type = SaltBridge
          /\ o.distance # distance(o.ligandAtom, o.proteinAtom)

\* C5: when a ligand O/S/P atom is within the salt-bridge cutoff of a
\* residue's positive-charge centre and within hydrogen-bond distance of a
\* charge-centre nitrogen of that residue, no HydrogenBond record between
\* the ligand atom and that nitrogen is returned: the one record returned
\* for the pair is the SaltBridge.
C5_SaltBridgeSupersedesHBond ==
    Done =>
      \A l \in Elements(Lig), n \in Elements(Relevant) :
         (/\ l.element \in {"O", "S", "P"}
          /\ n.resName \in DOMAIN POS_CHARGE_ATOMS
          /\ Includes(POS_CHARGE_ATOMS[n.resName], n.name)
          /\ n.element = "N"
          /\ DistLt(distance(l, getCenter(ResidueGroup(n, POS_CHARGE_ATOMS[n.resName]))),
                    SALT_BRIDGE_DIST)
          /\ DistLe(distance(l, n), HBOND_DIST))
         => /\ Cardinality(ForPair(Out, l, n)) = 1
            /\ \A k \in ForPair(Out, l, n) : Out[k].type = SaltBridge

\* the index sets of the rings found
RingIndexSet(ring) == {ring[k].index : k \in 1..Len(ring)}

\* C6: every ring returned has exactly 5 or 6 atoms, its atoms are pairwise
\* distinct, and no two returned rings have the same set of atom indices.
C6_RingsWellFormed ==
    Done =>
      /\ \A r \in 1..Len(ligandRings) :
            /\ Len(ligandRings[r]) \in {5, 6}
            /\ Cardinality(RingIndexSet(ligandRings[r])) = Len(ligandRings[r])
      /\ \A r, q \in 1..Len(ligandRings) :
            RingIndexSet(ligandRings[r]) = RingIndexSet(ligandRings[q]) => r = q

\* C6 witness: a ligand in which several different rings were found.
C6_Witness ==
    /\ Done
    /\ Len(ligandRings) >= 2
    /\ \E r, q \in 1..Len(ligandRings) : Len(ligandRings[r]) = 5 /\ Len(ligandRings[q]) = 6

\* the bond graph of the ligand: atoms closer than the bond length
Bonded(a, b) ==
    a.index # b.index /\ distance(a, b).n < BOND_DIST * BOND_DIST * distance(a, b).d

Neighbours(a) == {b \in Elements(Lig) : Bonded(a, b)}

RECURSIVE Component(_)
Component(S) ==
    LET T == S \cup UNION {Neighbours(a) : a \in S}
    IN  IF T = S THEN S ELSE Component(T)

\* the ligand's bond graph is one simple cycle through all its atoms
IsSimpleCycle ==
    /\ Len(Lig) >= 3
    /\ \A a \in Elements(Lig) : Cardinality(Neighbours(a)) = 2
    /\ Component({Lig[1]}) = Elements(Lig)

\* C7: when the ligand's bond graph is a single simple cycle of n atoms with
\* at least one carbon or nitrogen, exactly one ring is returned and it holds
\* all n atoms if n is 5 or 6, and no ring is returned if n is 3, 4 or 7 or
\* more.
C7_SimpleCycle ==
    (Done /\ IsSimpleCycle /\ \E a \in Elements(Lig) : a.element \in {"C", "N"}) =>
       IF Len(Lig) \in {5, 6}
       THEN /\ Len(ligandRings) = 1
            /\ Elements(ligandRings[1]) = Elements(Lig)
            /\ Len(ligandRings[1]) = Len(Lig)
       ELSE ligandRings = <<>>

\* C7 witness: a six-atom cycle for which the one ring was returned.
C7_Witness ==
    /\ Done
    /\ IsSimpleCycle
    /\ Len(Lig) = 6
    /\ Len(ligandRings) = 1

\* the distance between two atoms is at most c
Within(a, b, c) == distance(a, b).n <= c * c * distance(a, b).d

\* one atom's element is a donor (N, O, S) and the other's an acceptor (N, O, S)
DonorAcceptorMatch(l, p) ==
    l.element \in {"N", "O", "S"} /\ p.element \in {"N", "O", "S"}

HBondPart ==
    \A l \in Elements(Lig), p \in Elements(Relevant) :
       (\E k \in ForPair(interactions, l, p) : interactions[k].type = HydrogenBond)
          <=> (Within(l, p, HBOND_DIST) /\ DonorAcceptorMatch(l, p))

ThreeAngstrom == Frac(60 * 60, 1)

\* a single ligand oxygen and a single protein nitrogen 3.0 A apart
ScenarioA ==
    /\ Len(Lig) = 1 /\ Len(Prot) = 1
    /\ Lig[1].element = "O" /\ Prot[1].element = "N"
    /\ distance(Lig[1], Prot[1]) = ThreeAngstrom

\* C8 as stated: the raw list has a HydrogenBond record for a ligand atom and
\* a protein atom that passed the coarse filter exactly when they are within
\* 3.5 A and match as donor and acceptor; and a single ligand O with a
\* protein N 3.0 A away yields exactly one interaction, a HydrogenBond with
\* distance 3.0.
C8_HBondAsStated ==
    Done =>
      /\ HBondPart
      /\ ScenarioA =>
            /\ Len(Out) = 1
            /\ Out[1].type = HydrogenBond
            /\ Out[1].distance = ThreeAngstrom

\* C8 amended: the same, except that the single interaction of the O-N
\* example is a SaltBridge, not a HydrogenBond, when the salt-bridge test
\* accepted the pair too (the N is the first charge-centre atom of a
\* Lys/Arg/His residue).
C8_HBondUnlessSaltBridge ==
    Done =>
      /\ HBondPart
      /\ ScenarioA =>
            /\ Len(Out) = 1
            /\ PairKey(Out[1]) = <<Lig[1].index, Prot[1].index>>
            /\ Out[1].distance = ThreeAngstrom
            /\ Out[1].type =
                  IF \E r \in Elements(interactions) : r.type = SaltBridge
                  THEN SaltBridge ELSE HydrogenBond

\* C8 witness: the O-N example with a lysine NZ, returned as a SaltBridge.
C8_Witness ==
    /\ Done
    /\ ScenarioA
    /\ Len(Out) = 1
    /\ Out[1].type = SaltBridge
    /\ \E r \in Elements(interactions) : r.type = HydrogenBond

\* C9: a ligand Cl/Br/I atom within 3.5 A of a protein N/O/S atom yields
\* exactly one interaction for the pair, a HalogenBond with the pair's
\* distance, and no HydrogenBond record; no HalogenBond record is produced
\* for a pair whose ligand atom is not a halogen or whose atoms are more
\* than 3.5 A apart.
C9_HalogenBond ==
    Done =>
      \A l \in Elements(Lig), p \in Elements(Prot) :
         /\ (/\ ToUpperCase(l.element) \in {"CL", "BR", "I"}
             /\ p.element \in {"N", "O", "S"}
             /\ Within(l, p, HALOGEN_DIST))
            => /\ Cardinality(ForPair(Out, l, p)) = 1
               /\ \A k \in ForPair(Out, l, p) :
                     /\ Out[k].type = HalogenBond
                     /\ Out[k].distance = distance(l, p)
               /\ \A k \in ForPair(interactions, l, p) :
                     interactions[k].type # HydrogenBond
         /\ (\E k \in ForPair(interactions, l, p) : interactions[k].type = HalogenBond)
            => /\ ToUpperCase(l.element) \in {"CL", "BR", "I"}
               /\ Within(l, p, HALOGEN_DIST)

\* angle >= deg for an angle in [0, 180]
AngleGe(angle, deg) ==
    LET c == CosSq(deg)
        sa == IF angle.pos THEN 1 ELSE -1
        sc == IF c.pos THEN 1 ELSE -1
    IN  sa * angle.n * c.d <= sc * c.n * angle.d

\* a hydrogen of the structure bonded to one atom of the pair makes an angle
\* of at least HBOND_ANGLE at the hydrogen with the other atom
AngleCriterionMet(l, p) ==
    \E h \in Elements(structure) :
       /\ h.element = "H"
       /\ (Bonded(h, l) \/ Bonded(h, p))
       /\ AngleGe(angleDeg(l, h, p), HBOND_ANGLE)

\* C10: a HydrogenBond is returned only when the pair is within 3.5 A and
\* the donor-hydrogen-acceptor angle is established and at least 120
\* degrees.
C10_HBondNeedsAngle ==
    Done =>
      \A o \in Elements(Out) :
         o.type = HydrogenBond =>
            /\ Within(o.ligandAtom, o.proteinAtom, HBOND_DIST)
            /\ AngleCriterionMet(o.ligandAtom, o.proteinAtom)

\* atom a matches the ligand selector on chain, residue number and name
Matches(a) ==
    /\ a.chain = ligandResidue.chain
    /\ a.resNo = ligandResidue.resNo
    /\ a.resName = ligandResidue.resName

Origin == [x |-> 0, y |-> 0, z |-> 0]

\* C11: when no atom of the structure matches the ligand selector, the call
\* returns an empty interaction list and the ligand centre (0, 0, 0),
\* however many protein atoms there are.
C11_NoLigandAtoms ==
    (Done /\ \A a \in Elements(structure) : ~Matches(a)) =>
       analysisResult = [interactions |-> <<>>, ligandCenter |-> Origin]

\* C11 witness: a call with protein atoms and no atom matching the selector
\* returned the empty result.
C11_Witness ==
    /\ Done
    /\ \A a \in Elements(structure) : ~Matches(a)
    /\ \E a \in Elements(structure) : ~a.isHet
    /\ analysisResult.interactions = <<>>

\* how many times atom a stands in a list
Occurrences(list, a) == Cardinality({k \in 1..Len(list) : list[k] = a})

\* C12 as stated: every atom of the structure is in exactly one of the
\* ligand set and the protein set.
C12_PartitionExhaustive ==
    Done => \A a \in Elements(structure) : Occurrences(Lig, a) + Occurrences(Prot, a) = 1

\* C12 amended: no atom is in both sets or twice in one; an atom that
\* matches the selector is in the ligand set, a non-matching atom that is
\* not hetero is in the protein set, and a non-matching hetero atom (water,
\* ion, other ligand) is in neither.
C12_PartitionDisjoint ==
    Done =>
      \A a \in Elements(structure) :
         /\ Occurrences(Lig, a) = (IF Matches(a) THEN 1 ELSE 0)
         /\ Occurrences(Prot, a) = (IF ~Matches(a) /\ ~a.isHet THEN 1 ELSE 0)

\* C12 witness: a structure with a ligand atom, a protein atom and a hetero
\* atom outside the ligand, which went to neither set.
C12_Witness ==
    /\ Done
    /\ Len(Lig) >= 1 /\ Len(Prot) >= 1
    /\ \E a \in Elements(structure) :
          a.isHet /\ ~Matches(a) /\ Occurrences(Lig, a) + Occurrences(Prot, a) = 0

\* C13: in every returned interaction the protein atom is not hetero and
\* does not match the ligand selector, and the ligand atom matches it.
C13_HeteroExcluded ==
    Done =>
      \A o \in Elements(Out) :
         /\ ~o.proteinAtom.isHet
         /\ ~Matches(o.proteinAtom)
         /\ Matches(o.ligandAtom)

\* C13 witness: a water within hydrogen-bond distance of a ligand oxygen or
\* nitrogen, beside a protein atom that did yield an interaction.
C13_Witness ==
    /\ Done
    /\ Out # <<>>
    /\ \E l \in Elements(structure), a \in Elements(structure) :
          /\ Matches(l) /\ l.element \in {"N", "O"}
          /\ a.isHet /\ ~Matches(a) /\ a.element = "O"
          /\ distance(l, a).n <= HBOND_DIST * HBOND_DIST * distance(l, a).d

Negated(v) == [x |-> -v.x, y |-> -v.y, z |-> -v.z]

\* C15: angleBetween returns an angle in [0, 90] degrees (a cosine in
\* [0, 1]) for every pair of vectors, zero vectors included, and the same
\* angle when either vector is negated.
C15_AngleBetweenAcute ==
    angleReturned # NotCalled =>
       /\ angleReturned.pos
       /\ angleReturned.d > 0
       /\ 0 <= angleReturned.n /\ angleReturned.n <= angleReturned.d
       /\ angleBetween(Negated(vectors.v1), vectors.v2) = angleReturned
       /\ angleBetween(vectors.v1, Negated(vectors.v2)) = angleReturned

\* C15 witness: the angle of two vectors whose dot product is negative.
C15_Witness ==
    /\ angleReturned # NotCalled
    /\ dot(vectors.v1, vectors.v2) < 0
    /\ angleReturned.n > 0

\* the ring atoms of the aromatic residues the engine tests, one group per
\* residue
AromaticGroups ==
    {ResidueGroup(p, AROMATIC_PLANES[p.resName]) :
        p \in {q \in Elements(Relevant) : q.resName \in DOMAIN AROMATIC_PLANES}}

IsZero(v) == v.x = 0 /\ v.y = 0 /\ v.z = 0

\* C14: when the plane normal of the protein ring or of the ligand ring is
\* the zero vector, no pi-stacking record is made for that pair of rings,
\* whatever the distance of their centroids.
C14_ZeroNormalFailsPiStacking ==
    Done =>
      \A g \in AromaticGroups, q \in Elements(ligandRings) :
         (Len(g) >= 3 /\ (IsZero(getPlaneNormal(g)) \/ IsZero(getPlaneNormal(q))))
         => ~\E r \in Elements(interactions) :
                /\ r.id[1] = "pi"
                /\ r.ligandAtom = q[1]
                /\ r.proteinAtom = g[1]

\* the structure with every element symbol in upper case
UpperElements(s) == [k \in 1..Len(s) |-> [s[k] EXCEPT !.element = ToUpperCase(@)]]

\* the type and the atom pair of every interaction of a list
TypesAndPairs(list) == {<<o.type, PairKey(o)>> : o \in Elements(list)}

\* C16: the interactions reported do not depend on the letter case of the
\* element symbols: the call reports the same types for the same atom pairs
\* as a call on the structure with all element symbols in upper case.
C16_ElementCaseInsensitive ==
    Done =>
      TypesAndPairs(Out) =
         TypesAndPairs(analyzeInteractions(UpperElements(structure),
                                           ligandResidue).result.interactions)

\* two calls with the same structure and selector returned the same value,
\* and no call changed the structure it was given
SameInputsSameResult ==
    /\ \A i, j \in 1..Len(history) :
          (/\ history[i].structure = history[j].structure
           /\ history[i].ligandResidue = history[j].ligandResidue)
          => history[i].result = history[j].result
    /\ \A i \in 1..Len(history) : history[i].structure = structure

\* a call leaves its arguments as they were
CallKeepsArguments ==
    (pc = "ready" /\ pc' = "done") =>
       /\ structure' = structure
       /\ ligandResidue' = ligandResidue
       /\ history'[Len(history')].ligandResidue = ligandResidue

Residues == EachResidue(structure)

Listed == pc \in {"listed", "searched"}
Searched == pc = "searched"

Qualifies(rp) ==
    \/ ToUpperCase(rp.resname) \in COMMON_LIGANDS
    \/ rp.isHetero /\ ToUpperCase(rp.resname) \notin IGNORED_RESIDUES

AsOption(rp) ==
    [resName |-> rp.resname, resNo |-> rp.resno, chain |-> rp.chainname,
     atomCount |-> rp.atomCount]

\* C18: getLigandCandidates has an entry for a (chain, residue number)
\* exactly when a residue with that chain and number qualifies (common
\* ligand name, or hetero and not ignored); it has at most one entry per
\* (chain, residue number), the first qualifying residue in traversal
\* order; and it holds no ignored residue.
C18_CandidatesAreTheQualifyingResidues ==
    Listed =>
       /\ \A i \in 1..Len(Residues) :
             Qualifies(Residues[i]) =>
                \E k \in 1..Len(ligandCandidates) :
                   /\ ligandCandidates[k].chain = Residues[i].chainname
                   /\ ligandCandidates[k].resNo = Residues[i].resno
       /\ \A k \in 1..Len(ligandCandidates) :
             \E i \in 1..Len(Residues) :
                /\ Qualifies(Residues[i])
                /\ ligandCandidates[k] = AsOption(Residues[i])
                /\ \A j \in 1..(i - 1) :
                      ~(/\ Qualifies(Residues[j])
                        /\ Residues[j].chainname = Residues[i].chainname
                        /\ Residues[j].resno = Residues[i].resno)
       /\ \A k, m \in 1..Len(ligandCandidates) :
             (/\ ligandCandidates[k].chain = ligandCandidates[m].chain
              /\ ligandCandidates[k].resNo = ligandCandidates[m].resNo) => k = m
       /\ \A k \in 1..Len(ligandCandidates) :
             ToUpperCase(ligandCandidates[k].resName) \notin IGNORED_RESIDUES

\* C18 witness: a water and two qualifying residues share one chain and
\* residue number, and the first qualifying one is the entry.
C18_Witness ==
    /\ Listed
    /\ Len(ligandCandidates) >= 1
    /\ \E i, j, w \in 1..Len(Residues) :
          /\ i < j
          /\ Qualifies(Residues[i]) /\ Qualifies(Residues[j])
          /\ Residues[w].resname = "HOH"
          /\ Residues[i].resno = Residues[j].resno /\ Residues[i].chainname = Residues[j].chainname
          /\ Residues[w].resno = Residues[j].resno /\ Residues[w].chainname = Residues[j].chainname

IsCommon(c) == ToUpperCase(c.resName) \in COMMON_LIGANDS

\* C19: in the list getLigandCandidates returns, every candidate with a
\* common-ligand name precedes every candidate without one, and within each
\* of the two groups the atom counts do not increase.
C19_CandidatesOrdered ==
    Listed =>
       \A k, m \in 1..Len(ligandCandidates) :
          k < m =>
             /\ ~(~IsCommon(ligandCandidates[k]) /\ IsCommon(ligandCandidates[m]))
             /\ IsCommon(ligandCandidates[k]) = IsCommon(ligandCandidates[m])
                   => ligandCandidates[k].atomCount >= ligandCandidates[m].atomCount

\* C19 witness: three candidates, common and not, that were not met in the
\* order returned.
C19_Witness ==
    /\ Listed
    /\ Len(ligandCandidates) = 3
    /\ IsCommon(ligandCandidates[2]) /\ ~IsCommon(ligandCandidates[3])
    /\ ligandCandidates[1].atomCount > ligandCandidates[2].atomCount
    /\ ligandCandidates[1] # AsOption(Residues[1])

\* the residues whose name is the trimmed query, letter case aside
QueryMatches ==
    {i \in 1..Len(Residues) : ToUpperCase(Residues[i].resname) = Trim(ToUpperCase(queryName))}

\* C20: findResidueByName returns the first residue in traversal order whose
\* name equals the trimmed query, letter case aside, and null when there is
\* none.
C20_FirstMatchOrNull ==
    Searched =>
       IF QueryMatches = {} THEN found = Null
       ELSE \E i \in QueryMatches :
               /\ found = AsOption(Residues[i])
               /\ \A j \in QueryMatches : i <= j

\* C20 witness: a query in another letter case with spaces around it matches
\* two residues, and the first was returned.
C20_Witness ==
    /\ Searched
    /\ found # Null
    /\ Cardinality(QueryMatches) >= 2
    /\ queryName # found.resName
    /\ Trim(queryName) # queryName

\* a bound on the calls of dfs that a call with a path of `len` atoms stands
\* for, itself included, when no atom has more than n neighbours
RECURSIVE CallsBound(_, _)
CallsBound(len, n) == IF len >= 7 THEN 1 ELSE 1 + n * CallsBound(len + 1, n)

\* a bound on the steps the call of analyzeInteractions still has to make
Remaining ==
    CASE pc = "ready" -> 2 + Len(structure) * CallsBound(1, Len(structure))
      [] pc = "rings" ->
            1 + SeqSum([k \in 1..Len(stack) |->
                           CallsBound(Len(stack[k].path), Len(structure))])
      [] OTHER -> 0

\* no call of dfs has a path of more than 7 atoms; the call of
\* analyzeInteractions can go on until it has returned, and what it
\* returns is a result
SearchBounded ==
    /\ \A k \in 1..Len(stack) : Len(stack[k].path) <= 7
    /\ pc \in {"ready", "rings", "done"}
    /\ Remaining >= 0
    /\ Done => DOMAIN analysisResult = {"interactions", "ligandCenter"}

\* C21: every call of analyzeInteractions returns a result, whether the
\* ligand has no atom, one atom, atoms out of bonding distance or a densely
\* bonded graph: until it has returned it can take a step, and every step
\* lowers a bound on the steps still to make; no call of dfs is made with a
\* path of more than 7 atoms.
C21_TerminatesWithBoundedSearch ==
    []SearchBounded /\ [][Remaining' < Remaining]_vars

\* C21 witness: in a ligand with an atom bonded to six others, a call of
\* dfs with a path of 7 atoms is about to run.
C21_Witness ==
    /\ pc = "rings"
    /\ stack # <<>>
    /\ Len(Head(stack).path) = 7
    /\ \E a \in Elements(Lig) : Cardinality(Neighbours(a)) = 6

\* the search run call by call finds the rings findLigandRings returns
SearchAgrees ==
    Done => /\ ligandRings = findLigandRings(Lig)
            /\ analysisResult = analyzeInteractions(structure, ligandResidue).result

\* the groups of atoms whose centroid a residue-level test measures from:
\* per residue, the atoms the table names
GroupsOf(table) ==
    {ResidueGroup(p, table[p.resName]) :
        p \in {q \in Elements(Relevant) : q.resName \in DOMAIN table}}

\* distance d is below cutoff c, or at most c
Below(d, c) == d.n < c * c * d.d
AtMost(d, c) == d.n <= c * c * d.d

\* record r carries the distance its test compared with the cutoff
CarriesComparedDistance(r) ==
    LET prefix == r.id[1]
        l == r.ligandAtom
        p == r.proteinAtom
        rings == {q \in Elements(ligandRings) : q[1] = l}
        From(table, minLen) ==
            {g \in GroupsOf(table) : Len(g) >= minLen /\ g[1] = p}
    IN  CASE prefix = "pi" ->
               \E g \in From(AROMATIC_PLANES, 3), q \in rings :
                  /\ r.distance = distance(getCenter(g), getCenter(q))
                  /\ AtMost(r.distance, PI_STACKING_DIST)
          [] prefix = "pic" ->
               \/ \E g \in From(AROMATIC_PLANES, 3) :
                     /\ r.distance = distance(l, getCenter(g))
                     /\ Below(r.distance, PI_CATION_DIST)
               \/ \E g \in From(POS_CHARGE_ATOMS, 1), q \in rings :
                     /\ r.distance = distance(getCenter(g), getCenter(q))
                     /\ Below(r.distance, PI_CATION_DIST)
          [] prefix = "sb" ->
               \E g \in From(POS_CHARGE_ATOMS, 1) \cup From(NEG_CHARGE_ATOMS, 1) :
                  /\ r.distance = distance(l, getCenter(g))
                  /\ Below(r.distance, SALT_BRIDGE_DIST)
          [] prefix = "hb" ->
               r.distance = distance(l, p) /\ AtMost(r.distance, HBOND_DIST)
          [] prefix = "xb" ->
               r.distance = distance(l, p) /\ AtMost(r.distance, HALOGEN_DIST)
          [] prefix = "hp" ->
               r.distance = distance(l, p) /\ AtMost(r.distance, HYDROPHOBIC_DIST)
          [] prefix = "mt" ->
               r.distance = distance(l, p) /\ AtMost(r.distance, METAL_DIST)
          [] OTHER -> FALSE

\* C22: every record, in the raw list and in the returned list, carries the
\* distance that its test compared with its cutoff: between the centroids
\* for the centroid tests, between the two atoms for the atom-pair tests.
C22_DistanceIsTheComparedOne ==
    Done => \A r \in Elements(interactions) \cup Elements(Out) : CarriesComparedDistance(r)

\* C22 witness: a returned record of the pi-cation test, whose distance is
\* measured to the ring centroid and not to the protein atom it names.
C22_Witness ==
    /\ Done
    /\ \E o \in Elements(Out) :
          /\ o.id[1] = "pic"
          /\ o.distance # distance(o.ligandAtom, o.proteinAtom)

\* the ids of a list are pairwise different
UniqueIds(list) == \A a, b \in 1..Len(list) : list[a].id = list[b].id => a = b

\* C23: within one run the ids are unique in the raw list and in the
\* returned list: an id is a type prefix and the value of a counter that
\* starts at 0 and grows by one with every raw record, of whatever type.
C23_IdsUnique ==
    Done =>
       /\ \A k \in 1..Len(interactions) :
             /\ interactions[k].id[1] \in {"pi", "pic", "sb", "hb", "xb", "hp", "mt"}
             /\ interactions[k].id[2] = k - 1
       /\ UniqueIds(interactions)
       /\ UniqueIds(Out)

\* C23 witness: a run whose raw list has records of two types, two of them
\* of one type, and whose returned list is shorter than the raw list.
C23_Witness ==
    /\ Done
    /\ Len(Out) >= 2
    /\ Len(Out) < Len(interactions)
    /\ \E a, b, c \in 1..Len(interactions) :
          /\ a < b /\ b < c
          /\ interactions[a].id[1] # interactions[b].id[1]
          /\ interactions[b].id[1] = interactions[c].id[1]

\* a record of the pi-stacking test was made for the protein ring g and the
\* ligand ring q
Stacked(g, q) ==
    \E r \in Elements(interactions) :
       r.id[1] = "pi" /\ r.ligandAtom = q[1] /\ r.proteinAtom = g[1]

\* the pi-stacking records are those of the ring pairs whose centroids are
\* at most 5.5 A apart and whose planes make an angle below 30 degrees (or
\* of 30 degrees, if parallelIncluded) or above 60 degrees; with c the
\* squared dot product of the normals and m the product of their squared
\* lengths, the squared cosine of the angle is c / m
PiStackingBands(parallelIncluded) ==
    \A g \in GroupsOf(AROMATIC_PLANES), q \in Elements(ligandRings) :
       LET n1 == getPlaneNormal(g)
           n2 == getPlaneNormal(q)
           c == dot(n1, n2) * dot(n1, n2)
           m == magSq(n1) * magSq(n2)
           near == AtMost(distance(getCenter(g), getCenter(q)), PI_STACKING_DIST)
           parallel == IF parallelIncluded THEN 4 * c >= 3 * m ELSE 4 * c > 3 * m
           tShaped == 4 * c < m
           between == 4 * c < 3 * m /\ 4 * c > m
       IN  (Len(g) >= 3 /\ m > 0) =>
              /\ (near /\ (parallel \/ tShaped)) => Stacked(g, q)
              /\ (near /\ between) => ~Stacked(g, q)
              /\ ~near => ~Stacked(g, q)

PairTestsPassed(l, p) ==
    LET d == distance(l, p) IN
    {t \in {HydrogenBond, HalogenBond, Hydrophobic, MetalCoordination} :
        CASE t = HydrogenBond ->
               /\ l.element \in {"N", "O", "S"} /\ p.element \in {"N", "O", "S"}
               /\ AtMost(d, HBOND_DIST)
          [] t = HalogenBond ->
               /\ ToUpperCase(l.element) \in {"CL", "BR", "I"}
               /\ p.element \in {"N", "O", "S"}
               /\ AtMost(d, HALOGEN_DIST)
          [] t = Hydrophobic ->
               l.element = "C" /\ p.element = "C" /\ AtMost(d, HYDROPHOBIC_DIST)
          [] t = MetalCoordination ->
               /\ (ToUpperCase(l.element) \in METALS \/ ToUpperCase(p.element) \in METALS)
               /\ AtMost(d, METAL_DIST)}

\* the types of the records the per-atom-pair tests made for the pair (l, p)
PairTestsRecorded(l, p) ==
    {interactions[k].type :
        k \in {j \in ForPair(interactions, l, p) :
                  interactions[j].id[1] \in {"hb", "xb", "hp", "mt"}}}

\* C25: the early exit on pairs farther apart than the larger of the
\* hydrogen-bond and hydrophobic cutoffs loses nothing: for every ligand
\* atom and every protein atom that passed the coarse filter, each of the
\* hydrogen-bond, halogen-bond, hydrophobic and metal tests the pair passes
\* has its record in the raw list, and no other record of these tests is
\* made for the pair.
C25_EarlyExitLossless ==
    Done =>
       \A l \in Elements(Lig), p \in Elements(Relevant) :
          PairTestsRecorded(l, p) = PairTestsPassed(l, p)

\* C25 witness: one pair between 3.5 A and 4.5 A apart has its Hydrophobic
\* record, and another pair of the same run is more than 4.5 A apart.
C25_Witness ==
    /\ Done
    /\ \E l \in Elements(Lig), p \in Elements(Relevant) :
          /\ ~AtMost(distance(l, p), HBOND_DIST)
          /\ Hydrophobic \in PairTestsRecorded(l, p)
    /\ \E l \in Elements(Lig), p \in Elements(Relevant) :
          ~AtMost(distance(l, p), HYDROPHOBIC_DIST)

\* the positions in the raw list of the records of the atom pair of r
RawOfPair(r) == {k \in 1..Len(interactions) : PairKey(interactions[k]) = PairKey(r)}

\* the position in the raw list of the record the pair of r is to keep: the
\* earliest one among those of the highest rank
KeptOfPair(r) ==
    CHOOSE k \in RawOfPair(r) :
        \A j \in RawOfPair(r) :
           \/ Rank(interactions[j].type) < Rank(interactions[k].type)
           \/ Rank(interactions[j].type) = Rank(interactions[k].type) /\ k <= j

\* C26: deduplication loses no pair and invents no record: every atom pair
\* with a raw record has exactly one returned record, every returned record
\* is a raw record of its pair, unchanged, and it is the earliest generated
\* among the pair's raw records of the highest rank.
C26_DedupKeepsEarliestOfHighestRank ==
    Done =>
       /\ \A r \in Elements(interactions) :
             Cardinality({k \in 1..Len(Out) : PairKey(Out[k]) = PairKey(r)}) = 1
       /\ \A o \in Elements(Out) :
             /\ RawOfPair(o) # {}
             /\ o = interactions[KeptOfPair(o)]

\* C26 witness: a pair has two raw records of its highest rank, and the
\* returned record of the pair is the earlier of the two.
C26_Witness ==
    /\ Done
    /\ \E a, b \in 1..Len(interactions) :
          /\ a < b
          /\ PairKey(interactions[a]) = PairKey(interactions[b])
          /\ interactions[a].type = interactions[b].type
          /\ interactions[a] # interactions[b]
          /\ KeptOfPair(interactions[a]) = a
          /\ interactions[a] \in Elements(Out)

\* the types analyzeInteractions can produce
ProducedTypes ==
    {HydrogenBond, SaltBridge, Hydrophobic, PiStacking, HalogenBond, MetalCoordination}

\* the analysis found an interaction of type t
Detected(t) ==
    /\ analysisResult # Null
    /\ \E k \in 1..Len(analysisResult.interactions) : analysisResult.interactions[k].type = t

\* an interaction of type t is in the list passed to the table and the viewer
Shown(t) ==
    \E k \in 1..Len(filteredInteractions) : filteredInteractions[k].type = t

\* C27: every interaction type the engine detects can be shown: whenever
\* the analysis found an interaction of a type, a user who keeps working the
\* offered checkboxes comes to a state where interactions of that type are
\* in the filtered list.
C27_EveryDetectedTypeCanBeShown ==
    \A t \in ProducedTypes : Detected(t) ~> Shown(t)

\* C28: the state follows the selected file: a structure that is not null
\* is the one parsed from the selected file, and with no file selected the
\* structure, the selected ligand and the analysis result are null.
C28_StateFollowsSelectedFile ==
    /\ structure # Null => (file # Null /\ structure = Parse(file))
    /\ file = Null => (structure = Null /\ selectedLigand = Null /\ analysisResult = Null)

\* the lower-cased name of f ends with one of the five supported extensions
EndsWithSupportedExtension(f) ==
    \E ext \in {<<".", "p", "d", "b">>, <<".", "e", "n", "t">>, <<".", "c", "i", "f">>,
                <<".", "s", "d", "f">>, <<".", "m", "o", "l", "2">>} :
       /\ Len(f.name) >= Len(ext)
       /\ \A k \in 1..Len(ext) :
             ToLowerCaseChar(f.name[Len(f.name) - Len(ext) + k]) = ext[k]

\* C29: an upload of a file whose lower-cased name ends with none of the
\* supported extensions leaves file, structure, ligandCandidates,
\* selectedLigand and analysisResult unchanged; an upload of a file with a
\* supported extension sets file to it and clears the other four.
C29_UploadRejectsOrClears ==
    [][\A f \in Files :
          HandleFileUpload(f) =>
             IF EndsWithSupportedExtension(f)
             THEN /\ file' = f
                  /\ structure' = Null
                  /\ ligandCandidates' = <<>>
                  /\ selectedLigand' = Null
                  /\ analysisResult' = Null
             ELSE UNCHANGED <<file, structure, ligandCandidates, selectedLigand,
                              analysisResult>>]_vars

\* C29 witness: a file named in upper case was accepted and its load is
\* under way, and then an upload was rejected: the input element is
\* cleared and the accepted file is still the selected one.
C29_Witness ==
    /\ file # Null
    /\ \E k \in 1..Len(file.name) : file.name[k] # ToLowerCaseChar(file.name[k])
    /\ structure = Null
    /\ BagIn(file, loading)
    /\ fileInputValue = <<>>

\* no two entries of ligandCandidates have the same chain and residue number
NoDuplicateKeys ==
    \A i, j \in 1..Len(ligandCandidates) :
       CandidateKey(ligandCandidates[i]) = CandidateKey(ligandCandidates[j]) => i = j

\* the step is a manual search that found its residue
SuccessfulSearch ==
    /\ HandleManualSearch
    /\ structure # Null /\ manualSearchQuery # ""
    /\ findResidueByName(structure.atoms, manualSearchQuery) # Null

\* C30: ligandCandidates never holds two entries with the same chain and
\* residue number, and after a manual search that found its residue the
\* selected ligand's chain and residue number are those of an entry of
\* ligandCandidates.
C30_CandidateKeysUnique ==
    /\ []NoDuplicateKeys
    /\ [][SuccessfulSearch =>
             \E k \in 1..Len(ligandCandidates') :
                CandidateKey(ligandCandidates'[k]) = CandidateKey(selectedLigand')]_vars

\* C30 witness: a manual search added a residue that the load had not
\* listed, in front of the listed one, and selected it.
C30_Witness ==
    /\ Len(ligandCandidates) = 2
    /\ selectedLigand = ligandCandidates[1]
    /\ structure # Null
    /\ getLigandCandidates(structure.atoms) = <<ligandCandidates[2]>>

====
